---- MODULE Spec2Model ----
(***************************************************************************)
(* Model of the tractography decoders of trx-javascript: readTCK, readTRK, *)
(* readTRX, readTT (src/src/nvtract-loaders.ts), readVTK                   *)
(* (src/unnamed/part_001) and the Zip reader (src/src/nvutilities.ts).     *)
(*                                                                         *)
(* Conventions.                                                            *)
(*  - A byte buffer is a sequence of 0..255; byte offset k is element k+1. *)
(*  - TLC integers are 32 bits wide.  A 32-bit word at or above 2^31 is    *)
(*    held as its value minus 2^32 (so 0xFFFFFFFF is -1): equality with a  *)
(*    constant is exact, IsBig tells the unsigned reading is >= 2^31, and  *)
(*    sums with such a word saturate at IntMax, which lies beyond every    *)
(*    buffer of the model.                                                 *)
(*  - A typed array is a sequence of fixed length; a store outside its     *)
(*    length is dropped, as JavaScript drops it.                           *)
(*  - Floating-point values are held exactly, as normalised fractions      *)
(*    <<numerator, denominator>>; float32 rounding is not modelled.        *)
(***************************************************************************)
EXTENDS Integers, Sequences, FiniteSets, TLC

VARIABLES
    fmt,      \* which decoder this invocation runs
    buffer,   \* the ArrayBuffer handed to the decoder
    pc,       \* position of the invocation
    loc,      \* the local variables of the running function
    zip,      \* the fields of the Zip object (readTRX only)
    result    \* what the caller receives: pending, a Tractogram, or an error

vars == <<fmt, buffer, pc, loc, zip, result>>

(***************************************************************************)
(* Bounds of the model.                                                    *)
(***************************************************************************)
MaxRec == 2        \* streamline records in a TRK body
MaxVert == 2       \* vertices in one TRK record
MaxAttr == 1       \* declared TRK scalars, and declared TRK properties

IntMax == 2147483646 + 1

(***************************************************************************)
(* Numbers                                                                 *)
(***************************************************************************)
Min(a, b) == IF a < b THEN a ELSE b
Max(a, b) == IF a > b THEN a ELSE b
Abs(a) == IF a < 0 THEN -a ELSE a

IsBig(w) == w < 0

\* a + w for a cursor a >= 0 and an unsigned word w
SatAdd(a, w) == IF IsBig(w) \/ w > IntMax - a THEN IntMax ELSE a + w

RECURSIVE GCD(_, _)
GCD(a, b) == IF b = 0 THEN a ELSE GCD(b, a % b)

\* the fraction n/d, d # 0, in lowest terms with a positive denominator
Frac(n, d) ==
    LET g == GCD(Abs(n), Abs(d))
        s == IF d < 0 THEN -1 ELSE 1
    IN  <<(s * n) \div g, (s * d) \div g>>

Num(n) == <<n, 1>>
FNaN == <<0, 0>>
FAdd(p, q) == Frac(p[1] * q[2] + q[1] * p[2], p[2] * q[2])
FMul(p, q) == Frac(p[1] * q[1], p[2] * q[2])
FDiv(p, q) == Frac(p[1] * q[2], p[2] * q[1])

(***************************************************************************)
(* Typed arrays                                                            *)
(***************************************************************************)
\* new Uint32Array(n), new Float32Array(n): n elements, all zero
NewArray(n, zero) == [k \in 1..n |-> zero]

\* arr[idx] = v
ArraySet(arr, idx, v) ==
    IF idx >= 0 /\ idx < Len(arr) THEN [arr EXCEPT ![idx + 1] = v] ELSE arr

\* arr.slice(0, n)
ArraySlice0(arr, n) == SubSeq(arr, 1, Min(Max(n, 0), Len(arr)))

RECURSIVE SumSeq(_)
SumSeq(s) == IF s = <<>> THEN 0 ELSE s[1] + SumSeq(Tail(s))

RECURSIVE SeqsUpTo(_, _)
\* all sequences over S of length 0..n
SeqsUpTo(S, n) ==
    IF n = 0 THEN {<<>>}
    ELSE LET shorter == SeqsUpTo(S, n - 1)
         IN  shorter \cup {Append(s, x) : s \in shorter, x \in S}

Pending == [kind |-> "pending"]
Failure(m) == [kind |-> "error", msg |-> m]
NoZip == [index |-> 0, localFiles |-> <<>>, centralDirectories |-> 0,
          eocd |-> FALSE, unexpected |-> FALSE]

(***************************************************************************)
(* gl-matrix: a mat4 is 16 numbers, out = a * b in column-major storage.   *)
(***************************************************************************)
Mat4Identity ==
    [k \in 1..16 |-> IF k \in {1, 6, 11, 16} THEN Num(1) ELSE Num(0)]

Mat4Mul(a, b) ==
    [k \in 1..16 |->
        LET c == (k - 1) \div 4
            r == (k - 1) % 4
        IN  FAdd(FAdd(FMul(b[4 * c + 1], a[r + 1]), FMul(b[4 * c + 2], a[4 + r + 1])),
                 FAdd(FMul(b[4 * c + 3], a[8 + r + 1]), FMul(b[4 * c + 4], a[12 + r + 1])))]

Mat4Transpose(a) ==
    [k \in 1..16 |-> a[4 * ((k - 1) % 4) + ((k - 1) \div 4) + 1]]

(***************************************************************************)
(* readTRK                                                                 *)
(*                                                                         *)
(* A TRK buffer is held as the fields readTRK reads at fixed offsets of    *)
(* the 1000-byte header, and the body as the sequence of its 32-bit words. *)
(* The Int32Array and the Float32Array over the body are two views of the  *)
(* same words: a word n is the count n in the one and the value n in the   *)
(* other.  rawMagic is the word at offset 0 of the buffer as handed in; a   *)
(* buffer whose rawMagic is not TRAC decompresses to the same fields with  *)
(* magic at offset 0.                                                      *)
(***************************************************************************)
TRAC == 1128354388
ZSTD == -47205080          \* 4247762216 as a 32-bit word
GZIP == 559903             \* bytes 1F 8B 08 00
HdrSize == 1000

RECURSIVE TRKVertices(_, _, _)
\* the words of vertices j..n of a record: x, y, z and ns scalars each
TRKVertices(j, n, ns) ==
    IF j > n THEN <<>>
    ELSE <<j, 2, 3>> \o [s \in 1..ns |-> 10 * j + s] \o TRKVertices(j + 1, n, ns)

RECURSIVE TRKBody(_, _, _)
\* the body words of the records whose vertex counts are recs
TRKBody(recs, ns, np) ==
    IF recs = <<>> THEN <<>>
    ELSE <<recs[1]>> \o TRKVertices(1, recs[1], ns) \o [p \in 1..np |-> 100 + p]
         \o TRKBody(Tail(recs), ns, np)

\* header matrices at offset 440: all zero (not recorded), and a shift
Mat4Zero == [k \in 1..16 |-> Num(0)]
Mat4Shift == [Mat4Identity EXCEPT ![4] = Num(5), ![8] = Num(6), ![12] = Num(7)]

TRKHeaders ==
    { [rawMagic |-> rm, magic |-> m, vers |-> v, hdr_sz |-> h,
       voxel_size |-> vs, mat |-> mt] :
        rm \in {TRAC, GZIP, ZSTD}, m \in {TRAC, 0}, v \in {1, 2, 3, 65538},
        h \in {HdrSize, 996}, vs \in {1, 2}, mt \in {Mat4Zero, Mat4Shift} }

TRKBuffers ==
    { [hdr |-> h, n_scalars |-> ns, n_properties |-> np, recs |-> recs,
       body |-> TRKBody(recs, ns, np)] :
        h \in { x \in TRKHeaders :
                  /\ (x.rawMagic = TRAC => x.magic = TRAC)
                  /\ (x.rawMagic = ZSTD => x.magic = 0)
                  \* one malformed field at a time
                  /\ Cardinality({f \in {"m", "v", "h"} :
                        \/ f = "m" /\ x.magic # TRAC
                        \/ f = "v" /\ x.vers # 2
                        \/ f = "h" /\ x.hdr_sz # HdrSize}) <= 1
                  /\ (x.rawMagic # TRAC \/ x.vers # 2 \/ x.hdr_sz # HdrSize
                        => x.voxel_size = 1 /\ x.mat = Mat4Zero) },
        ns \in 0..MaxAttr, np \in 0..MaxAttr,
        recs \in SeqsUpTo(0..MaxVert, MaxRec) }

InitTRK ==
    /\ fmt = "TRK"
    /\ buffer \in TRKBuffers
    /\ pc = "trk_open"
    /\ loc = [magic |-> buffer.hdr.rawMagic]
    /\ zip = NoZip
    /\ result = Pending

\* lines 91-107: the magic, and the decompression of anything that is not TRAC
TRKOpen ==
    /\ fmt = "TRK" /\ pc = "trk_open"
    /\ IF loc.magic = TRAC
       THEN pc' = "trk_header" /\ UNCHANGED <<loc, result>>
       ELSE IF loc.magic = ZSTD
       THEN /\ pc' = "done"
            /\ result' = Failure("zstd TRK decompression is not supported")
            /\ UNCHANGED loc
       ELSE /\ pc' = "trk_header"
            /\ loc' = [loc EXCEPT !.magic = buffer.hdr.magic]
            /\ UNCHANGED result
    /\ UNCHANGED <<fmt, buffer, zip>>

\* lines 124-166: zoomMat, the header matrix (identity when mat[15] is 0)
TRKVox2mm(h) ==
    LET z == FDiv(Num(1), Num(h.voxel_size))
        half == Frac(-1, 2)
        zoomMat == <<z, Num(0), Num(0), half,
                     Num(0), z, Num(0), half,
                     Num(0), Num(0), z, half,
                     Num(0), Num(0), Num(0), Num(1)>>
        mat == IF h.mat[16] = Num(0) THEN Mat4Identity ELSE h.mat
    IN  Mat4Mul(zoomMat, mat)

\* the test of line 110 with a version that has to be 2
TRKInvalidUnlessVersion2(h, magic) == h.vers # 2 \/ h.hdr_sz # HdrSize \/ magic # TRAC

\* lines 108-110: vers and hdr_sz are read as unsigned 32-bit words
TRKInvalid(h, magic) ==
    (IsBig(h.vers) \/ h.vers > 2) \/ h.hdr_sz # HdrSize \/ magic # TRAC

\* lines 108-183
TRKHeader ==
    /\ fmt = "TRK" /\ pc = "trk_header"
    /\ LET h == buffer.hdr
           ntracks == Len(buffer.body)
       IN  IF TRKInvalid(h, loc.magic)
           THEN /\ pc' = "done"
                /\ result' = Failure("Not a valid TRK file")
                /\ UNCHANGED loc
           ELSE IF ntracks < 1
           THEN /\ pc' = "done"
                /\ result' = Failure("Empty TRK file.")
                /\ UNCHANGED loc
           ELSE /\ pc' = "trk_loop"
                /\ loc' = [magic |-> loc.magic,
                           n_scalars |-> buffer.n_scalars,
                           n_properties |-> buffer.n_properties,
                           dpv |-> [s \in 1..buffer.n_scalars |-> <<>>],
                           dps |-> [s \in 1..buffer.n_properties |-> <<>>],
                           vox2mmMat |-> TRKVox2mm(h),
                           ntracks |-> ntracks,
                           i |-> 0, npt |-> 0,
                           offsetPt0 |-> NewArray(ntracks \div 4, 0), noffset |-> 0,
                           pts |-> NewArray(ntracks, Num(0)), npt3 |-> 0]
                /\ UNCHANGED result
    /\ UNCHANGED <<fmt, buffer, zip>>

\* i32[i] and f32[i]: undefined (a count of no iterations, NaN) past the end
TRKInt(i) == IF i < Len(buffer.body) THEN buffer.body[i + 1] ELSE 0
TRKFloat(i) == IF i < Len(buffer.body) THEN Num(buffer.body[i + 1]) ELSE FNaN

FMulN(a, b) == IF a = FNaN \/ b = FNaN THEN FNaN ELSE FMul(a, b)
FAddN(a, b) == IF a = FNaN \/ b = FNaN THEN FNaN ELSE FAdd(a, b)

\* lines 193-195: one row of vox2mmMat applied to (x, y, z)
TRKRow(m, row, x, y, z) ==
    FAddN(FAddN(FMulN(x, m[4 * row + 1]), FMulN(y, m[4 * row + 2])),
          FAddN(FMulN(z, m[4 * row + 3]), m[4 * row + 4]))

RECURSIVE TRKPoints(_, _, _)
\* lines 188-203: the vertices j..n_pts-1 of the record, from the state l
TRKPoints(l, j, n_pts) ==
    IF j >= n_pts THEN l
    ELSE LET x == TRKFloat(l.i)
             y == TRKFloat(l.i + 1)
             z == TRKFloat(l.i + 2)
             p1 == ArraySet(l.pts, l.npt3, TRKRow(l.vox2mmMat, 0, x, y, z))
             p2 == ArraySet(p1, l.npt3 + 1, TRKRow(l.vox2mmMat, 1, x, y, z))
             p3 == ArraySet(p2, l.npt3 + 2, TRKRow(l.vox2mmMat, 2, x, y, z))
             ns == IF l.n_scalars > 0 THEN l.n_scalars ELSE 0
         IN  TRKPoints([l EXCEPT !.pts = p3, !.npt3 = l.npt3 + 3,
                                 !.dpv = [s \in 1..Len(l.dpv) |->
                                            Append(l.dpv[s], TRKFloat(l.i + 3 + s - 1))],
                                 !.i = l.i + 3 + ns,
                                 !.npt = l.npt + 1],
                       j + 1, n_pts)

\* lines 184-210: one iteration of the loop over the streamline records
TRKRecord ==
    /\ fmt = "TRK" /\ pc = "trk_loop"
    /\ loc.i < loc.ntracks
    /\ LET n_pts == TRKInt(loc.i)
           l1 == [loc EXCEPT !.i = loc.i + 1,
                             !.offsetPt0 = ArraySet(loc.offsetPt0, loc.noffset, loc.npt),
                             !.noffset = loc.noffset + 1]
           l2 == TRKPoints(l1, 0, n_pts)
           np == IF l2.n_properties > 0 THEN l2.n_properties ELSE 0
       IN  loc' = [l2 EXCEPT !.dps = [s \in 1..Len(l2.dps) |->
                                        Append(l2.dps[s], TRKFloat(l2.i + s - 1))],
                             !.i = l2.i + np]
    /\ UNCHANGED <<fmt, buffer, pc, zip, result>>

\* lines 211-237: freeze the attribute arrays, add the fence post, trim
TRKFinish ==
    /\ fmt = "TRK" /\ pc = "trk_loop"
    /\ ~(loc.i < loc.ntracks)
    /\ LET off == ArraySet(loc.offsetPt0, loc.noffset, loc.npt)
       IN  result' = [kind |-> "ok",
                      pts |-> ArraySlice0(loc.pts, loc.npt3),
                      offsetPt0 |-> ArraySlice0(off, loc.noffset + 1),
                      dps |-> loc.dps,
                      dpv |-> loc.dpv]
    /\ pc' = "done"
    /\ UNCHANGED <<fmt, buffer, loc, zip>>

NextTRK == TRKOpen \/ TRKHeader \/ TRKRecord \/ TRKFinish

SpecTRK == InitTRK /\ [][NextTRK]_vars

(***************************************************************************)
(* Bytes and text                                                          *)
(***************************************************************************)
\* DataView.getUint8 .. getUint32, little-endian unless said otherwise; the
\* callers check that the bytes read lie inside the buffer
getUint8(b, off) == b[off + 1]
getInt8(b, off) == IF b[off + 1] >= 128 THEN b[off + 1] - 256 ELSE b[off + 1]
getUint16(b, off) == b[off + 1] + 256 * b[off + 2]
getInt32(b, off) ==
    LET lo == getUint16(b, off)
        hi == getUint16(b, off + 2)
    IN  IF hi >= 32768 THEN lo + 65536 * (hi - 65536) ELSE lo + 65536 * hi
getUint32(b, off) == getInt32(b, off)
InBuffer(b, off, n) == off >= 0 /\ off + n <= Len(b)

\* buffer.slice(from, to)
Slice(b, from, to) == SubSeq(b, Min(from, Len(b)) + 1, Min(to, Len(b)))

StartsWith(s, p) == Len(s) >= Len(p) /\ SubSeq(s, 1, Len(p)) = p
EndsWith(s, p) == Len(s) >= Len(p) /\ SubSeq(s, Len(s) - Len(p) + 1, Len(s)) = p
Includes(s, p) == \E k \in 1..(Len(s) - Len(p) + 1) : SubSeq(s, k, k + Len(p) - 1) = p
ToLowerCase(s) == [k \in 1..Len(s) |-> IF s[k] >= 65 /\ s[k] <= 90 THEN s[k] + 32 ELSE s[k]]

\* s.split(c).pop(): what follows the last c
LastPart(s, c) ==
    LET at == {k \in 1..Len(s) : s[k] = c}
        last == IF at = {} THEN 0 ELSE CHOOSE k \in at : \A j \in at : j <= k
    IN  SubSeq(s, last + 1, Len(s))

\* s.split(c)[0]: what precedes the first c
FirstPart(s, c) ==
    LET at == {k \in 1..Len(s) : s[k] = c}
        first == IF at = {} THEN Len(s) + 1 ELSE CHOOSE k \in at : \A j \in at : k <= j
    IN  SubSeq(s, 1, first - 1)

IsSpace(c) == c \in {9, 10, 11, 12, 13, 32}
IsDigit(c) == c >= 48 /\ c <= 57

RECURSIVE Digits(_, _, _)
\* the value of the decimal digits of s from k on, acc so far
Digits(s, k, acc) ==
    IF k <= Len(s) /\ IsDigit(s[k]) THEN Digits(s, k + 1, 10 * acc + (s[k] - 48))
    ELSE acc

RECURSIVE SkipSpace(_, _)
SkipSpace(s, k) == IF k <= Len(s) /\ IsSpace(s[k]) THEN SkipSpace(s, k + 1) ELSE k

\* a number that may be NaN
IntV(v) == [nan |-> FALSE, val |-> v]
NaN == [nan |-> TRUE, val |-> 0]

\* parseInt(s) for decimal text: leading white space, a sign, digits; NaN
\* when no digit follows
ParseInt(s) ==
    LET k == SkipSpace(s, 1)
        neg == k <= Len(s) /\ s[k] = 45
        k2 == IF k <= Len(s) /\ s[k] \in {43, 45} THEN k + 1 ELSE k
        v == Digits(s, k2, 0)
    IN  IF ~(k2 <= Len(s) /\ IsDigit(s[k2])) THEN NaN
        ELSE IF neg THEN IntV(-v) ELSE IntV(v)

(***************************************************************************)
(* readTCK                                                                 *)
(*                                                                         *)
(* The buffer is a byte sequence.  A float32 read from it is held as its   *)
(* 32-bit pattern, which is what pts stores.                               *)
(***************************************************************************)
MaxRuns == 2       \* runs of finite triplets in a TCK data section
MaxRunLen == 2     \* finite triplets in one run

\* readStr(), lines 15-28: the next line and the position after it
RECURSIVE SkipBlank(_, _)
SkipBlank(b, p) == IF p < Len(b) /\ b[p + 1] = 10 THEN SkipBlank(b, p + 1) ELSE p
RECURSIVE SkipLine(_, _)
SkipLine(b, p) == IF p < Len(b) /\ b[p + 1] # 10 THEN SkipLine(b, p + 1) ELSE p
ReadStr(b, p) ==
    LET startPos == SkipBlank(b, p)
        pos == SkipLine(b, startPos) + 1
    IN  [line |-> IF pos - startPos < 1 THEN <<>> ELSE Slice(b, startPos, pos - 1),
         pos |-> pos]

TxtMrtrix == <<109, 114, 116, 114, 105, 120, 32, 116, 114, 97, 99, 107, 115>>  \* mrtrix tracks
TxtEND == <<69, 78, 68>>                                                          \* END
TxtFile == <<102, 105, 108, 101, 58>>                                             \* file:

RECURSIVE TCKHeaderLines(_, _, _, _)
\* lines 34-39: read lines until one includes END; the offset of the last file: line
TCKHeaderLines(b, pos, line, offset) ==
    IF pos < Len(b) /\ ~Includes(line, TxtEND)
    THEN LET r == ReadStr(b, pos)
         IN  TCKHeaderLines(b, r.pos, r.line,
                 IF StartsWith(ToLowerCase(r.line), TxtFile)
                 THEN ParseInt(LastPart(r.line, 32)) ELSE offset)
    ELSE offset

\* the float32 at off: its class, from the exponent and mantissa bits
F32Exp(b, off) == 2 * (b[off + 4] % 128) + (b[off + 3] \div 128)
F32Mant0(b, off) == b[off + 1] = 0 /\ b[off + 2] = 0 /\ b[off + 3] % 128 = 0
IsFiniteAt(b, off) == F32Exp(b, off) # 255
IsNaNAt(b, off) == F32Exp(b, off) = 255 /\ ~F32Mant0(b, off)

\* the bytes of 1.0 * n for n in 1..3, of NaN and of +Infinity, little-endian
F32Bytes(n) == CASE n = 1 -> <<0, 0, 128, 63>> [] n = 2 -> <<0, 0, 0, 64>> [] OTHER -> <<0, 0, 64, 64>>
F32NaN == <<0, 0, 192, 127>>
F32Inf == <<0, 0, 128, 127>>

RECURSIVE TCKRun(_)
TCKRun(n) == IF n = 0 THEN <<>> ELSE F32Bytes(1) \o F32Bytes(2) \o F32Bytes(3) \o TCKRun(n - 1)
RECURSIVE TCKData(_)
\* the runs, each followed by a NaN triplet
TCKData(runs) ==
    IF runs = <<>> THEN <<>>
    ELSE TCKRun(runs[1]) \o F32NaN \o F32NaN \o F32NaN \o TCKData(Tail(runs))

Pad(s, n) == s \o [k \in 1..(n - Len(s)) |-> 0]

\* header texts: the signature line, a file: line (or none), END
TCKSigLines == { <<109, 114, 116, 114, 105, 120, 32, 116, 114, 97, 99, 107, 115, 10>>,   \* mrtrix tracks
                 <<110, 111, 116, 32, 97, 32, 116, 99, 107, 32, 102, 105, 108, 101, 10>> } \* not a tck file
TxtFile40 == <<102, 105, 108, 101, 58, 32, 46, 32, 52, 48, 10>>             \* file: . 40
TxtFILE40 == <<70, 73, 76, 69, 58, 32, 46, 32, 52, 48, 10>>                 \* FILE: . 40
TCKFileLines == { TxtFile40, TxtFILE40,
                  <<102, 105, 108, 101, 58, 32, 46, 32, 56, 10>>,           \* file: . 8
                  <<102, 105, 108, 101, 58, 32, 46, 32, 97, 98, 99, 10>>,   \* file: . abc
                  <<99, 111, 117, 110, 116, 58, 32, 49, 10>> }              \* count: 1
TCKDataOffset == 40

TCKBuffers ==
    { [runs |-> runs, inf |-> inf, fileLine |-> fl,
       bytes |-> Pad(sig \o fl \o <<69, 78, 68, 10>>, TCKDataOffset) \o TCKData(runs)
                 \o (IF inf THEN F32Inf \o F32Inf \o F32Inf ELSE <<>>)] :
        sig \in TCKSigLines, fl \in TCKFileLines,
        runs \in SeqsUpTo(0..MaxRunLen, MaxRuns), inf \in BOOLEAN }

InitTCK ==
    /\ fmt = "TCK"
    /\ buffer \in TCKBuffers
    /\ pc = "tck_header"
    /\ loc = [pos |-> IntV(0)]
    /\ zip = NoZip
    /\ result = Pending

\* lines 9-53
TCKHeader ==
    /\ fmt = "TCK" /\ pc = "tck_header"
    /\ LET b == buffer.bytes
           len == Len(b)
           first == ReadStr(b, 0)
           offset == TCKHeaderLines(b, first.pos, first.line, IntV(-1))
       IN  IF len < 20
           THEN /\ result' = Failure("File too small to be TCK")
                /\ pc' = "done" /\ UNCHANGED loc
           ELSE IF ~Includes(first.line, TxtMrtrix)
           THEN /\ result' = Failure("Not a valid TCK file")
                /\ pc' = "done" /\ UNCHANGED loc
           ELSE IF ~offset.nan /\ offset.val < 20
           THEN /\ result' = Failure("Not a valid TCK file (missing file offset)")
                /\ pc' = "done" /\ UNCHANGED loc
           ELSE /\ loc' = [pos |-> offset, len |-> len, npt |-> 0,
                           offsetPt0 |-> NewArray(len \div 16, 0), noffset |-> 0,
                           npt3 |-> 0, pts |-> NewArray(len \div 4, 0)]
                /\ pc' = "tck_loop" /\ UNCHANGED result
    /\ UNCHANGED <<fmt, buffer, zip>>

\* the loop condition of line 54; a NaN position compares false
TCKMore == ~loc.pos.nan /\ loc.pos.val + 12 < loc.len

\* lines 54-74: one triplet
TCKTriplet ==
    /\ fmt = "TCK" /\ pc = "tck_loop"
    /\ TCKMore
    /\ LET b == buffer.bytes
           p == loc.pos.val
       IN  IF ~IsFiniteAt(b, p)
           THEN /\ loc' = [loc EXCEPT !.pos = IntV(p + 12),
                                      !.offsetPt0 = ArraySet(loc.offsetPt0, loc.noffset, loc.npt),
                                      !.noffset = loc.noffset + 1]
                /\ pc' = IF ~IsNaNAt(b, p) THEN "tck_finish" ELSE "tck_loop"
           ELSE /\ loc' = [loc EXCEPT !.pos = IntV(p + 12),
                                      !.pts = ArraySet(ArraySet(ArraySet(loc.pts,
                                                  loc.npt3, getInt32(b, p)),
                                                  loc.npt3 + 1, getInt32(b, p + 4)),
                                                  loc.npt3 + 2, getInt32(b, p + 8)),
                                      !.npt3 = loc.npt3 + 3,
                                      !.npt = loc.npt + 1]
                /\ pc' = "tck_loop"
    /\ UNCHANGED <<fmt, buffer, zip, result>>

\* lines 75-81: trim and return
TCKFinish ==
    /\ fmt = "TCK"
    /\ \/ pc = "tck_finish"
       \/ pc = "tck_loop" /\ ~TCKMore
    /\ result' = [kind |-> "ok",
                  pts |-> ArraySlice0(loc.pts, loc.npt3),
                  offsetPt0 |-> ArraySlice0(loc.offsetPt0, loc.noffset)]
    /\ pc' = "done"
    /\ UNCHANGED <<fmt, buffer, loc, zip>>

NextTCK == TCKHeader \/ TCKTriplet \/ TCKFinish

SpecTCK == InitTCK /\ [][NextTCK]_vars

(***************************************************************************)
(* readTT                                                                  *)
(*                                                                         *)
(* The buffer is held as what readMatV4 returns for it: the variables of   *)
(* the MAT file.  has names the variables present, trans_to_mni is its 16  *)
(* numbers in file order, track is the bytes of the uint8 variable track.  *)
(***************************************************************************)
MaxTTRec == 2      \* records in a TT track blob

\* little-endian bytes of a 32-bit integer
I32LE(n) == <<n % 256, (n \div 256) % 256, (n \div 65536) % 256, (n \div 16777216) % 256>>
U8(n) == n % 256

\* a record of the track blob: the size field, the first point in 1/32
\* voxel, the deltas of the later points; size + 13 bytes in all
TTRecordBytes(r) ==
    LET full == I32LE(r.size) \o I32LE(r.first[1]) \o I32LE(r.first[2]) \o I32LE(r.first[3])
                \o [k \in 1..(3 * Len(r.deltas)) |->
                       U8(r.deltas[((k - 1) \div 3) + 1][((k - 1) % 3) + 1])]
    IN  [k \in 1..(r.size + 13) |-> IF k <= Len(full) THEN full[k] ELSE 0]

TTRecords ==
    { [size |-> 3, first |-> <<32, 64, 96>>, deltas |-> <<>>],
      [size |-> 6, first |-> <<32, -64, 96>>, deltas |-> <<<<1, -2, 3>>>>],
      [size |-> 9, first |-> <<-5, 0, 7>>, deltas |-> <<<<127, -128, 0>>, <<1, 1, 1>>>>],
      [size |-> 0, first |-> <<32, 64, 96>>, deltas |-> <<>>],
      [size |-> 4, first |-> <<32, 64, 96>>, deltas |-> <<>>],
      [size |-> 7, first |-> <<0, 32, 64>>, deltas |-> <<<<3, 2, 1>>>>] }

RECURSIVE TTTrack(_)
TTTrack(recs) == IF recs = <<>> THEN <<>> ELSE TTRecordBytes(recs[1]) \o TTTrack(Tail(recs))

\* trans_to_mni as stored: the identity, and a map with a shear and a shift
TTMatrices ==
    { <<1, 0, 0, 0,  0, 1, 0, 0,  0, 0, 1, 0,  0, 0, 0, 1>>,
      <<2, 1, 0, 5,  0, 1, 0, -6,  0, 0, 3, 7,  0, 0, 0, 1>> }

TTVariables == {"trans_to_mni", "voxel_size", "track"}

TTBuffers ==
    { [has |-> has, trans_to_mni |-> m, recs |-> recs, track |-> TTTrack(recs)] :
        has \in {TTVariables} \cup {TTVariables \ {v} : v \in TTVariables},
        m \in TTMatrices,
        recs \in SeqsUpTo(TTRecords, MaxTTRec) }

InitTT ==
    /\ fmt = "TT"
    /\ buffer \in { b \in TTBuffers :
                      b.has # TTVariables => b.recs = <<>> /\ b.trans_to_mni[1] = 1 }
    /\ pc = "tt_open"
    /\ loc = [i |-> 0]
    /\ zip = NoZip
    /\ result = Pending

\* lines 397-429: the three variables must be there; trans_to_mni transposed
TTOpen ==
    /\ fmt = "TT" /\ pc = "tt_open"
    /\ IF "trans_to_mni" \notin buffer.has
       THEN /\ result' = Failure("TT format file must have 'trans_to_mni'")
            /\ pc' = "done" /\ UNCHANGED loc
       ELSE IF "voxel_size" \notin buffer.has
       THEN /\ result' = Failure("TT format file must have 'voxel_size'")
            /\ pc' = "done" /\ UNCHANGED loc
       ELSE IF "track" \notin buffer.has
       THEN /\ result' = Failure("TT format file must have 'track'")
            /\ pc' = "done" /\ UNCHANGED loc
       ELSE /\ loc' = [trans_to_mni |-> Mat4Transpose([k \in 1..16 |-> Num(buffer.trans_to_mni[k])]),
                       i |-> 0, pos |-> <<>>, nvert3 |-> 0]
            /\ pc' = "tt_scan" /\ UNCHANGED result
    /\ UNCHANGED <<fmt, buffer, zip>>

\* lines 437-442: one iteration of the loop that finds the records
TTScan ==
    /\ fmt = "TT" /\ pc = "tt_scan"
    /\ loc.i < Len(buffer.track)
    /\ IF ~InBuffer(buffer.track, loc.i, 4)
       THEN /\ result' = Failure("RangeError")
            /\ pc' = "done" /\ UNCHANGED loc
       ELSE LET newpts == getUint32(buffer.track, loc.i)
            IN  /\ loc' = [loc EXCEPT !.pos = Append(loc.pos, loc.i),
                                      !.i = SatAdd(SatAdd(loc.i, newpts), 13),
                                      !.nvert3 = SatAdd(loc.nvert3, newpts)]
                /\ UNCHANGED <<pc, result>>
    /\ UNCHANGED <<fmt, buffer, zip>>

\* lines 443-445
TTAlloc ==
    /\ fmt = "TT" /\ pc = "tt_scan"
    /\ ~(loc.i < Len(buffer.track))
    /\ loc' = [trans_to_mni |-> loc.trans_to_mni, pos |-> loc.pos,
               offsetPt0 |-> NewArray(Len(loc.pos) + 1, 0),
               pts |-> NewArray(loc.nvert3, Num(0)),
               npt |-> 0, i |-> 0]
    /\ pc' = "tt_loop"
    /\ UNCHANGED <<fmt, buffer, zip, result>>

\* the number of points after the first: j = 2; j <= sz, sz the size over 3
TTLaterPointsOffByOne(size) == Max(size \div 3, 0)
TTLaterPoints(size) == Max(size \div 3 - 1, 0)

RECURSIVE TTDeltas(_, _, _, _)
\* lines 457-464: n more points from byte p on, from the point xyz; l holds
\* pts and npt.  fail is set when a delta lies outside the blob.
TTDeltas(l, p, xyz, n) ==
    IF n = 0 \/ l.fail THEN l
    ELSE IF ~InBuffer(buffer.track, p, 3) THEN [l EXCEPT !.fail = TRUE]
    ELSE LET x == xyz[1] + getInt8(buffer.track, p)
             y == xyz[2] + getInt8(buffer.track, p + 1)
             z == xyz[3] + getInt8(buffer.track, p + 2)
         IN  TTDeltas([l EXCEPT !.pts = ArraySet(ArraySet(ArraySet(l.pts,
                                           l.npt, Num(x)), l.npt + 1, Num(y)), l.npt + 2, Num(z)),
                                !.npt = l.npt + 3],
                      p + 3, <<x, y, z>>, n - 1)

\* lines 446-465: one streamline record
TTRecord ==
    /\ fmt = "TT" /\ pc = "tt_loop"
    /\ loc.i < Len(loc.pos)
    /\ LET p == loc.pos[loc.i + 1]
           b == buffer.track
       IN  IF ~InBuffer(b, p, 16)
           THEN /\ result' = Failure("RangeError")
                /\ pc' = "done" /\ UNCHANGED loc
           ELSE LET size == getUint32(b, p)
                    x == getInt32(b, p + 4)
                    y == getInt32(b, p + 8)
                    z == getInt32(b, p + 12)
                    l0 == [pts |-> ArraySet(ArraySet(ArraySet(loc.pts,
                                       loc.npt, Num(x)), loc.npt + 1, Num(y)), loc.npt + 2, Num(z)),
                           npt |-> loc.npt + 3, fail |-> FALSE]
                    l1 == TTDeltas(l0, p + 16, <<x, y, z>>, TTLaterPoints(size))
                IN  IF l1.fail
                    THEN /\ result' = Failure("RangeError")
                         /\ pc' = "done" /\ UNCHANGED loc
                    ELSE /\ loc' = [loc EXCEPT
                                      !.offsetPt0 = ArraySet(loc.offsetPt0, loc.i, loc.npt \div 3),
                                      !.pts = l1.pts, !.npt = l1.npt, !.i = loc.i + 1]
                         /\ UNCHANGED <<pc, result>>
    /\ UNCHANGED <<fmt, buffer, zip>>

\* pts[i] of a typed array: undefined, NaN in arithmetic, outside its length
ArrayGet(arr, idx) == IF idx < Len(arr) THEN arr[idx + 1] ELSE FNaN

\* lines 466-468: undo the fixed-point scale
TTScale(v) == IF v = FNaN THEN FNaN ELSE FDiv(v, Num(32))

\* lines 473-475: component c (0..2) of the mapped point
TTMap(t, c, x, y, z) ==
    FAddN(FAddN(FMulN(t[c + 1], x), FMulN(t[c + 5], y)),
          FAddN(FMulN(t[c + 9], z), t[c + 13]))

\* lines 466-477 and 480-483: scale, map, fence post, return
TTFinish ==
    /\ fmt = "TT" /\ pc = "tt_loop"
    /\ ~(loc.i < Len(loc.pos))
    /\ LET n == Len(loc.pts)
           scaled == [k \in 1..n |-> IF k - 1 < loc.npt THEN TTScale(loc.pts[k]) ELSE loc.pts[k]]
           \* the vertex at v = 3 * ((k - 1) \div 3), read before any of it is written
           mapped == [k \in 1..n |->
                        LET v == 3 * ((k - 1) \div 3)
                        IN  IF v < loc.npt
                            THEN TTMap(loc.trans_to_mni, (k - 1) % 3,
                                       ArrayGet(scaled, v), ArrayGet(scaled, v + 1),
                                       ArrayGet(scaled, v + 2))
                            ELSE scaled[k]]
       IN  result' = [kind |-> "ok",
                      pts |-> mapped,
                      offsetPt0 |-> ArraySet(loc.offsetPt0, Len(loc.pos), loc.npt \div 3)]
    /\ pc' = "done"
    /\ UNCHANGED <<fmt, buffer, loc, zip>>

NextTT == TTOpen \/ TTScan \/ TTAlloc \/ TTRecord \/ TTFinish

SpecTT == InitTT /\ [][NextTT]_vars

(***************************************************************************)
(* readVTK                                                                 *)
(*                                                                         *)
(* The buffer is a byte sequence; buffer.file is the description it was    *)
(* written from.  A point coordinate is held as the 32-bit pattern of its  *)
(* float32; a count parsed from the text is a number that may be NaN.      *)
(***************************************************************************)
MaxLines == 2      \* polylines (or offsets) of a VTK file
MaxPoints == 2     \* points of a VTK file

\* the text readVTK looks for
VTKText ==
    [ vtk |-> <<35, 32, 118, 116, 107, 32, 68, 97, 116, 97, 70, 105, 108, 101>>,   \* '# vtk DataFile'
      ascii |-> <<65, 83, 67, 73, 73>>,   \* 'ASCII'
      binary |-> <<66, 73, 78, 65, 82, 89>>,   \* 'BINARY'
      polydata |-> <<80, 79, 76, 89, 68, 65, 84, 65>>,   \* 'POLYDATA'
      points |-> <<80, 79, 73, 78, 84, 83>>,   \* 'POINTS'
      double |-> <<100, 111, 117, 98, 108, 101>>,   \* 'double'
      float |-> <<102, 108, 111, 97, 116>>,   \* 'float'
      lines |-> <<76, 73, 78, 69, 83>>,   \* 'LINES'
      offsets |-> <<79, 70, 70, 83, 69, 84, 83>>,   \* 'OFFSETS'
      int64 |-> <<105, 110, 116, 54, 52>> ]   \* 'int64'
NaNBits == 2143289344   \* the float32 NaN a typed array stores for undefined

RECURSIVE TrimLeft(_)
TrimLeft(s) == IF s # <<>> /\ IsSpace(s[1]) THEN TrimLeft(Tail(s)) ELSE s
RECURSIVE TrimRight(_)
TrimRight(s) ==
    IF s # <<>> /\ IsSpace(s[Len(s)]) THEN TrimRight(SubSeq(s, 1, Len(s) - 1)) ELSE s
Trim(s) == TrimRight(TrimLeft(s))

\* readStr(), lines 21-27
VTKReadStr(b, p) ==
    LET startPos == SkipBlank(b, p)
        pos == SkipLine(b, startPos) + 1
    IN  [line |-> Trim(Slice(b, startPos, pos - 1)), pos |-> pos]

RECURSIVE SkipWord(_, _)
SkipWord(s, k) == IF k <= Len(s) /\ ~IsSpace(s[k]) THEN SkipWord(s, k + 1) ELSE k

\* line.split(/\s+/)[1] of a trimmed line; empty stands for undefined
SecondItem(s) ==
    LET from == SkipSpace(s, SkipWord(s, 1))
    IN  SubSeq(s, from, SkipWord(s, from) - 1)

getInt32BE(b, off) ==
    getInt32(<<b[off + 4], b[off + 3], b[off + 2], b[off + 1]>>, 0)

\* Math.fround(getFloat64(off)): the float32 of a double that is one exactly
\* (its low 29 mantissa bits are zero, its exponent is a float32's), else a
\* value known only as the rounding of these bytes
getFloat64AsFloat32(b, off) ==
    LET hi == getInt32BE(b, off)
        lo == getInt32BE(b, off + 4)
        mag == IF hi < 0 THEN (hi + 2147483647) + 1 ELSE hi
        e == mag \div 1048576
        m == mag % 1048576
        top == IF lo < 0 THEN 4 + ((lo + 2147483647) + 1) \div 536870912 ELSE lo \div 536870912
        low == (IF lo < 0 THEN (lo + 2147483647) + 1 ELSE lo) % 536870912
        bits == (e - 896) * 8388608 + m * 8 + top
    IN  IF mag = 0 /\ lo = 0 THEN (IF hi < 0 THEN -2147483647 - 1 ELSE 0)
        ELSE IF low = 0 /\ e >= 897 /\ e <= 1150
        THEN (IF hi < 0 THEN (bits - 2147483647) - 1 ELSE bits)
        ELSE [rounded |-> SubSeq(b, off + 1, off + 8)]

\* c < n for a count n that may be NaN
Below(c, n) == ~n.nan /\ c < n.val
\* new TypedArray(n): NaN gives no element, a negative length is a RangeError
ArrayLength(n) == IF n.nan THEN 0 ELSE n.val

\* the text and the bytes the files of the model are written with
VTKFileText ==
    [ version |-> <<35, 32, 118, 116, 107, 32, 68, 97, 116, 97, 70, 105, 108, 101, 32, 86, 101, 114, 115, 105, 111, 110, 32, 51, 46, 48>>,   \* '# vtk DataFile Version 3.0'
      noVtk |-> <<35, 32, 86, 84, 75>>,   \* '# VTK'
      comment |-> <<116, 114, 97, 99, 116, 115>>,   \* 'tracts'
      dataset |-> <<68, 65, 84, 65, 83, 69, 84, 32, 80, 79, 76, 89, 68, 65, 84, 65>>,   \* 'DATASET POLYDATA'
      grid |-> <<68, 65, 84, 65, 83, 69, 84, 32, 83, 84, 82, 85, 67, 84, 85, 82, 69, 68, 95, 71, 82, 73, 68>>,   \* 'DATASET STRUCTURED_GRID'
      polygons |-> <<80, 79, 76, 89, 71, 79, 78, 83, 32, 49, 32, 52>>,   \* 'POLYGONS 1 4'
      offsets64 |-> <<79, 70, 70, 83, 69, 84, 83, 32, 118, 116, 107, 116, 121, 112, 101, 105, 110, 116, 54, 52>>,   \* 'OFFSETS vtktypeint64'
      offsets32 |-> <<79, 70, 70, 83, 69, 84, 83, 32, 118, 116, 107, 116, 121, 112, 101, 105, 110, 116, 51, 50>>,   \* 'OFFSETS vtktypeint32'
      connectivity |-> <<67, 79, 78, 78, 69, 67, 84, 73, 86, 73, 84, 89, 32, 118, 116, 107, 116, 121, 112, 101, 105, 110, 116, 54, 52>>,   \* 'CONNECTIVITY vtktypeint64'
      int |-> <<105, 110, 116>> ]   \* 'int'

RECURSIVE NumText(_)
NumText(n) ==
    IF n < 0 THEN <<45>> \o NumText(-n)
    ELSE IF n < 10 THEN <<48 + n>>
    ELSE NumText(n \div 10) \o <<48 + (n % 10)>>

I32BE(n) == <<(n \div 16777216) % 256, (n \div 65536) % 256, (n \div 256) % 256, n % 256>>
I64BE(n) == (IF n < 0 THEN <<255, 255, 255, 255>> ELSE <<0, 0, 0, 0>>) \o I32BE(n)
F32BE(n) == LET le == F32Bytes(n) IN <<le[4], le[3], le[2], le[1]>>
F64BE(n) ==
    CASE n = 1 -> <<63, 240, 0, 0, 0, 0, 0, 0>>
      [] n = 2 -> <<64, 0, 0, 0, 0, 0, 0, 0>>
      [] OTHER -> <<64, 8, 0, 0, 0, 0, 0, 0>>

RECURSIVE Concat(_)
Concat(ss) == IF ss = <<>> THEN <<>> ELSE ss[1] \o Concat(Tail(ss))

\* point j of a file is (j, j, j)
VTKPointBytes(isFloat64, n) ==
    Concat([k \in 1..(3 * n) |->
               IF isFloat64 THEN F64BE(((k - 1) \div 3) + 1) ELSE F32BE(((k - 1) \div 3) + 1)])

\* a polyline record: the count, then the indices
VTKLineBytes(l) == I32BE(l.count) \o Concat([k \in 1..Len(l.idx) |-> I32BE(l.idx[k])])

\* the bytes of a file from its description
VTKBytes(f) ==
    f.signature \o <<10>> \o VTKFileText.comment \o <<10>> \o f.encoding \o <<10>> \o f.dataset \o <<10>>
    \o VTKText.points \o <<32>> \o f.nvert \o <<32>> \o f.type \o <<10>>
    \o VTKPointBytes(f.type = VTKText.double, f.points) \o <<10>>
    \o f.cells \o <<32>> \o f.n_count \o <<32>> \o NumText(0) \o <<10>>
    \o (CASE f.branch = "lines" -> Concat([k \in 1..Len(f.lines) |-> VTKLineBytes(f.lines[k])])
          [] f.branch = "int64" ->
                VTKFileText.offsets64 \o <<10>> \o Concat([k \in 1..Len(f.offsets) |-> I64BE(f.offsets[k])])
                \o <<10>> \o VTKFileText.connectivity \o <<10>>
          [] OTHER ->
                VTKFileText.offsets32 \o <<10>> \o Concat([k \in 1..Len(f.offsets) |-> I32BE(f.offsets[k])]))

VTKFile(points, branch, lines, offsets) ==
    [signature |-> VTKFileText.version, encoding |-> VTKText.binary, dataset |-> VTKFileText.dataset,
     nvert |-> NumText(points), type |-> VTKText.float, points |-> points,
     cells |-> VTKText.lines, branch |-> branch,
     n_count |-> NumText(IF branch = "lines" THEN Len(lines) ELSE Len(offsets)),
     lines |-> lines, offsets |-> offsets]

Polyline(idx) == [count |-> Len(idx), idx |-> idx]

\* the polylines of the model: indices inside and outside the point table,
\* a record whose count is negative; a last record cut short by the end of
\* the file
VTKLineShapes ==
    { Polyline(<<>>), Polyline(<<0>>), Polyline(<<0, 1>>), Polyline(<<1, 0>>),
      Polyline(<<2>>), Polyline(<<-1>>), [count |-> -1, idx |-> <<>>] }
VTKLineLists ==
    SeqsUpTo(VTKLineShapes, MaxLines)
    \cup { Append(ls, [count |-> 2, idx |-> <<0>>]) : ls \in SeqsUpTo(VTKLineShapes, MaxLines - 1) }

\* well-formed headers over every choice of lines or offsets
VTKDataFiles ==
    { VTKFile(n, "lines", ls, <<>>) : n \in 0..MaxPoints, ls \in VTKLineLists }
    \cup
    { VTKFile(n, b, <<>>, os) : n \in 1..MaxPoints, b \in {"int64", "int32"},
                                os \in SeqsUpTo({0, 1, 2, -1}, MaxLines) }

\* one field of a file made different
VTKVariants(f) ==
    { [f EXCEPT !.signature = VTKFileText.noVtk], [f EXCEPT !.encoding = VTKText.ascii],
      [f EXCEPT !.encoding = VTKText.float], [f EXCEPT !.dataset = VTKFileText.grid],
      [f EXCEPT !.type = VTKFileText.int], [f EXCEPT !.type = VTKText.double],
      [f EXCEPT !.nvert = VTKText.float], [f EXCEPT !.nvert = NumText(-1)],
      [f EXCEPT !.nvert = NumText(9)], [f EXCEPT !.cells = VTKFileText.polygons],
      [f EXCEPT !.n_count = VTKFileText.int], [f EXCEPT !.n_count = NumText(-1)],
      [f EXCEPT !.n_count = NumText(-2)], [f EXCEPT !.n_count = NumText(3)] }

VTKFiles ==
    VTKDataFiles
    \cup UNION { VTKVariants(f) :
                   f \in { VTKFile(2, "lines", <<Polyline(<<0, 1>>)>>, <<>>),
                           VTKFile(2, "int64", <<>>, <<0, 2>>),
                           VTKFile(2, "int32", <<>>, <<0, 2>>) } }
    \cup { [VTKFile(0, "lines", <<Polyline(<<0>>)>>, <<>>) EXCEPT !.nvert = VTKText.float] }

VTKBuffers ==
    { [file |-> f, bytes |-> VTKBytes(f)] : f \in VTKFiles } \cup { [file |-> <<>>, bytes |-> VTKFileText.noVtk] }

InitVTK ==
    /\ fmt = "VTK"
    /\ buffer \in VTKBuffers
    /\ pc = "vtk_header"
    /\ loc = [pos |-> 0]
    /\ zip = NoZip
    /\ result = Pending

VTKThrow(msg) ==
    /\ result' = Failure(msg)
    /\ pc' = "done"
    /\ UNCHANGED loc

\* lines 12-68: the header lines and the point table
VTKHeader ==
    /\ fmt = "VTK" /\ pc = "vtk_header"
    /\ LET b == buffer.bytes
           len == Len(b)
           l1 == VTKReadStr(b, 0)
           l2 == VTKReadStr(b, l1.pos)
           l3 == VTKReadStr(b, l2.pos)
           l4 == VTKReadStr(b, l3.pos)
           l5 == VTKReadStr(b, l4.pos)
           isFloat64 == Includes(l5.line, VTKText.double)
           nvert == ParseInt(SecondItem(l5.line))
           nvert3 == IF nvert.nan THEN NaN ELSE IntV(3 * nvert.val)
           w == IF isFloat64 THEN 8 ELSE 4
           pos == l5.pos
       IN  IF len < 20 THEN VTKThrow("File too small to be VTK")
           ELSE IF ~StartsWith(l1.line, VTKText.vtk) THEN VTKThrow("Invalid VTK file")
           ELSE IF StartsWith(l3.line, VTKText.ascii) \/ ~StartsWith(l3.line, VTKText.binary)
           THEN VTKThrow("Invalid VTK file, expected ASCII or BINARY")
           ELSE IF ~Includes(l4.line, VTKText.polydata) THEN VTKThrow("Only able to read VTK POLYDATA")
           ELSE IF \/ ~StartsWith(l5.line, VTKText.points)
                   \/ (~Includes(l5.line, VTKText.double) /\ ~Includes(l5.line, VTKText.float))
           THEN VTKThrow("Only able to read VTK float or double POINTS")
           ELSE IF ArrayLength(nvert3) < 0 THEN VTKThrow("RangeError")
           ELSE IF ~nvert3.nan /\ pos + w * nvert3.val > len
           THEN VTKThrow("See NiiVue for VTK ASCII support.")
           ELSE /\ loc' = [pos |-> pos + w * ArrayLength(nvert3),
                           nvert3 |-> nvert3,
                           positions |-> [k \in 1..ArrayLength(nvert3) |->
                                            IF isFloat64 THEN getFloat64AsFloat32(b, pos + 8 * (k - 1))
                                            ELSE getInt32BE(b, pos + 4 * (k - 1))]]
                /\ pc' = "vtk_lines"
                /\ UNCHANGED result
    /\ UNCHANGED <<fmt, buffer, zip>>

\* lines 71-85 and 110-117: the LINES line, the look at the line after it,
\* and the offsets array of the branch taken
VTKLines ==
    /\ fmt = "VTK" /\ pc = "vtk_lines"
    /\ LET b == buffer.bytes
           l6 == VTKReadStr(b, loc.pos)
           n_count == ParseInt(SecondItem(l6.line))
           posOK == l6.pos
           l7 == VTKReadStr(b, posOK)
           n1 == IF n_count.nan THEN NaN ELSE IntV(n_count.val + 1)
       IN  IF ~StartsWith(l6.line, VTKText.lines)
           THEN VTKThrow("See NiiVue for VTK support (this library only reads LINES)")
           ELSE IF StartsWith(l7.line, VTKText.offsets)
           THEN IF ArrayLength(n_count) < 0 THEN VTKThrow("RangeError")
                ELSE /\ loc' = [pos |-> l7.pos, nvert3 |-> loc.nvert3,
                                positions |-> loc.positions, n_count |-> n_count,
                                isInt64 |-> Includes(l7.line, VTKText.int64),
                                isOverflowInt32 |-> FALSE,
                                offsetPt0 |-> NewArray(ArrayLength(n_count), 0), c |-> 0]
                     /\ pc' = "vtk_offsets"
                     /\ UNCHANGED result
           ELSE IF ArrayLength(n1) < 0 THEN VTKThrow("RangeError")
                ELSE /\ loc' = [pos |-> posOK, nvert3 |-> loc.nvert3,
                                positions |-> loc.positions, n_count |-> n_count,
                                offsetPt0 |-> ArraySet(NewArray(ArrayLength(n1), 0), 0, 0),
                                pts |-> <<>>, npt |-> 0, c |-> 0]
                     /\ pc' = "vtk_loop"
                     /\ UNCHANGED result
    /\ UNCHANGED <<fmt, buffer, zip>>

\* lines 89-96 and 101-104: one offset is read
VTKOffset ==
    /\ fmt = "VTK" /\ pc = "vtk_offsets"
    /\ Below(loc.c, loc.n_count)
    /\ LET b == buffer.bytes
           w == IF loc.isInt64 THEN 8 ELSE 4
       IN  IF ~InBuffer(b, loc.pos, w) THEN VTKThrow("RangeError")
           ELSE /\ loc' = [loc EXCEPT
                             !.isOverflowInt32 = @ \/ (loc.isInt64 /\ getInt32BE(b, loc.pos) # 0),
                             !.offsetPt0 = ArraySet(@, loc.c, getInt32BE(b, loc.pos + w - 4)),
                             !.pos = @ + w,
                             !.c = @ + 1]
                /\ UNCHANGED <<pc, result>>
    /\ UNCHANGED <<fmt, buffer, zip>>

\* lines 97-107 with a throw in the place of the warning
VTKOffsetsOverflowThrows ==
    /\ fmt = "VTK" /\ pc = "vtk_offsets"
    /\ ~Below(loc.c, loc.n_count)
    /\ result' = IF loc.isOverflowInt32 THEN Failure("int32 overflow")
                 ELSE [kind |-> "ok", pts |-> loc.positions, offsetPt0 |-> loc.offsetPt0,
                       warned |-> FALSE]
    /\ pc' = "done"
    /\ UNCHANGED <<fmt, buffer, loc, zip>>

\* lines 97-107: the point table is returned with the offsets of the file
VTKOffsetsReturn ==
    /\ fmt = "VTK" /\ pc = "vtk_offsets"
    /\ ~Below(loc.c, loc.n_count)
    /\ result' = [kind |-> "ok", pts |-> loc.positions, offsetPt0 |-> loc.offsetPt0,
                  warned |-> loc.isOverflowInt32]
    /\ pc' = "done"
    /\ UNCHANGED <<fmt, buffer, loc, zip>>

RECURSIVE VTKIndices(_, _, _)
\* lines 128-141: the indices i..numPoints-1 of a polyline, from the state l
VTKIndices(l, i, numPoints) ==
    IF i >= numPoints \/ l.failed # "" THEN l
    ELSE IF l.pos + 4 > Len(buffer.bytes)
    THEN [l EXCEPT !.failed = "Unexpected end of file when reading streamline points."]
    ELSE LET idx == getInt32BE(buffer.bytes, l.pos) * 3
             at(k) == IF k >= 0 /\ k < Len(l.positions) THEN l.positions[k + 1] ELSE NaNBits
         IN  IF ~l.nvert3.nan /\ idx + 2 >= l.nvert3.val
             THEN [l EXCEPT !.failed = "Index out of bounds", !.pos = @ + 4]
             ELSE VTKIndices([l EXCEPT !.pos = @ + 4,
                                       !.pts = @ \o <<at(idx), at(idx + 1), at(idx + 2)>>],
                             i + 1, numPoints)

\* lines 118-142: one polyline is read
VTKLine ==
    /\ fmt = "VTK" /\ pc = "vtk_loop"
    /\ Below(loc.c, loc.n_count)
    /\ IF loc.pos + 4 > Len(buffer.bytes)
       THEN VTKThrow("Unexpected end of file when reading streamline count.")
       ELSE LET numPoints == getInt32BE(buffer.bytes, loc.pos)
                l1 == [pos |-> loc.pos + 4, nvert3 |-> loc.nvert3, positions |-> loc.positions,
                       n_count |-> loc.n_count,
                       offsetPt0 |-> ArraySet(loc.offsetPt0, loc.c + 1, loc.npt + numPoints),
                       pts |-> loc.pts, npt |-> loc.npt + numPoints, c |-> loc.c,
                       failed |-> ""]
                l2 == VTKIndices(l1, 0, numPoints)
            IN  IF l2.failed # "" THEN VTKThrow(l2.failed)
                ELSE /\ loc' = [pos |-> l2.pos, nvert3 |-> l2.nvert3, positions |-> l2.positions,
                                n_count |-> l2.n_count, offsetPt0 |-> l2.offsetPt0,
                                pts |-> l2.pts, npt |-> l2.npt, c |-> l2.c + 1]
                     /\ UNCHANGED <<pc, result>>
    /\ UNCHANGED <<fmt, buffer, zip>>

\* line 144
VTKFinish ==
    /\ fmt = "VTK" /\ pc = "vtk_loop"
    /\ ~Below(loc.c, loc.n_count)
    /\ result' = [kind |-> "ok", pts |-> loc.pts, offsetPt0 |-> loc.offsetPt0, warned |-> FALSE]
    /\ pc' = "done"
    /\ UNCHANGED <<fmt, buffer, loc, zip>>

NextVTK == VTKHeader \/ VTKLines \/ VTKOffset \/ VTKOffsetsReturn \/ VTKLine \/ VTKFinish

SpecVTK == InitVTK /\ [][NextVTK]_vars

(***************************************************************************)
(* Zip (nvutilities.ts)                                                    *)
(*                                                                         *)
(* buffer.bytes is the archive; buffer.items is the list of records it was *)
(* written from, kept to say what the archive holds.  A size field is held *)
(* as a JavaScript number capped at IntMax (ToNumber).                     *)
(***************************************************************************)
MaxEntries == 2    \* entries of a TRX archive drawn from TRXFiles

SigLocal == 67324752          \* 0x04034b50
SigCentral == 33639248        \* 0x02014b50
SigEnd == 101010256           \* 0x06054b50
SigEnd64 == 101075792         \* 0x06064b50
SigDescriptor == 134695760    \* 0x08074b50
SigPK == 19280                \* 0x4b50
Sentinel == -1                \* 0xffffffff as a 32-bit word

ToNumber(w) == IF IsBig(w) THEN IntMax ELSE w
U16LE(n) == <<n % 256, (n \div 256) % 256>>
U64LE(n) == I32LE(n) \o <<0, 0, 0, 0>>

\* Number(getBigUint64(off, true)): low word plus 2^32 times the high word
getBigUint64(b, off) ==
    IF getUint32(b, off + 4) # 0 THEN IntMax ELSE ToNumber(getUint32(b, off))

\* a raw deflate stream of one final stored block holding the payload
DeflateStored(payload) ==
    <<1>> \o U16LE(Len(payload)) \o U16LE(65535 - Len(payload)) \o payload

\* DecompressionStream('deflate-raw') on the streams of the model: a single
\* final stored block inflates to its bytes, anything else is rejected
InflateRaw(d) ==
    IF /\ Len(d) >= 5 /\ d[1] = 1
       /\ getUint16(d, 1) + getUint16(d, 3) = 65535
       /\ Len(d) = 5 + getUint16(d, 1)
    THEN [ok |-> TRUE, bytes |-> SubSeq(d, 6, Len(d))]
    ELSE [ok |-> FALSE, msg |-> "TypeError: invalid deflate stream"]

ItemCrc == <<120, 86, 52, 18>>   \* 0x12345678, the CRC field the archives of the model carry

Zip64Modes == {"zip64", "zip64_none", "zip64_short", "sent_c", "sent_u"}
DescriptorModes == {"dd", "dd_sized"}

ItemData(it) == IF it.method = 8 THEN DeflateStored(it.payload) ELSE it.payload

ItemExtra(it) ==
    CASE it.mode \in {"zip64", "sent_c", "sent_u"} ->
            <<1, 0, 16, 0>> \o U64LE(Len(it.payload)) \o U64LE(Len(ItemData(it)))
      [] it.mode = "zip64_short" -> <<1, 0, 8, 0>> \o U64LE(Len(it.payload))
      [] it.mode = "zip64_none" -> <<2, 0, 4, 0, 9, 9, 9, 9>>
      [] OTHER -> <<>>

\* the bytes of one record of an archive
ItemBytes(it) ==
    CASE it.kind = "local" ->
            LET data == ItemData(it)
                hdrC == IF it.mode = "dd" THEN 0
                        ELSE IF it.mode \in Zip64Modes \ {"sent_u"} THEN Sentinel
                        ELSE Len(data)
                hdrU == IF it.mode = "dd" THEN 0
                        ELSE IF it.mode \in Zip64Modes \ {"sent_c"} THEN Sentinel
                        ELSE Len(it.payload)
                extra == ItemExtra(it)
            IN  I32LE(SigLocal) \o U16LE(20)
                \o U16LE(IF it.mode \in DescriptorModes THEN 8 ELSE 0)
                \o U16LE(it.method) \o U16LE(0) \o U16LE(0)
                \o (IF it.mode = "dd" THEN I32LE(0) ELSE ItemCrc)
                \o I32LE(hdrC) \o I32LE(hdrU)
                \o U16LE(Len(it.name)) \o U16LE(Len(extra))
                \o it.name \o extra \o data
                \o (IF it.mode \in DescriptorModes
                    THEN I32LE(SigDescriptor) \o ItemCrc
                         \o I32LE(Len(data)) \o I32LE(Len(it.payload))
                    ELSE <<>>)
      [] it.kind = "central" ->
            I32LE(SigCentral) \o [k \in 1..24 |-> 0]
            \o U16LE(Len(it.name)) \o U16LE(0) \o U16LE(0)
            \o [k \in 1..12 |-> 0] \o it.name
      [] it.kind = "end" -> I32LE(SigEnd) \o [k \in 1..18 |-> 0]
      [] it.kind = "end64" -> I32LE(SigEnd64) \o [k \in 1..52 |-> 0]
      [] OTHER -> it.raw      \* "junk": bytes that are no record

RECURSIVE ArchiveBytes(_)
ArchiveBytes(items) ==
    IF items = <<>> THEN <<>> ELSE ItemBytes(items[1]) \o ArchiveBytes(Tail(items))

Local(name, method, payload, mode) ==
    [kind |-> "local", name |-> name, method |-> method, payload |-> payload, mode |-> mode]
Central(name) == [kind |-> "central", name |-> name]
EndRecord == [kind |-> "end"]
End64Record == [kind |-> "end64"]
Junk(raw) == [kind |-> "junk", raw |-> raw]

\* readString, line 238: the bytes, one character each
readString(b, off, n) == SubSeq(b, off + 1, off + n)

RECURSIVE FindZip64(_, _, _)
\* lines 151-176: walk the extra field from zip64Offset; the ZIP64 sizes, or
\* the error thrown
FindZip64(b, zip64Offset, extraEnd) ==
    IF zip64Offset < extraEnd - 4
    THEN LET fieldSignature == getUint16(b, zip64Offset)
             fieldLength == getUint16(b, zip64Offset + 2)
         IN  IF fieldSignature = 1
             THEN IF fieldLength >= 16
                  THEN IF ~InBuffer(b, zip64Offset + 4, 16)
                       THEN [ok |-> FALSE, msg |-> "RangeError"]
                       ELSE [ok |-> TRUE,
                             uncompressedSize |-> getBigUint64(b, zip64Offset + 4),
                             compressedSize |-> getBigUint64(b, zip64Offset + 12)]
                  ELSE [ok |-> FALSE, msg |-> "ZIP64 extra field found but is too small"]
             ELSE FindZip64(b, zip64Offset + 4 + fieldLength, extraEnd)
    ELSE [ok |-> FALSE, msg |-> "ZIP64 format missing extra field with signature 0x0001."]

\* which header sizes send readLocalFile to the ZIP64 extra field, line 150
IsZip64(compressedSize, uncompressedSize) ==
    compressedSize = Sentinel /\ uncompressedSize = Sentinel

\* readLocalFile, lines 143-193: the entry, or the error thrown
readLocalFile(b, offset) ==
    IF ~InBuffer(b, offset, 30) THEN [ok |-> FALSE, msg |-> "RangeError"]
    ELSE
    LET compressedSize == getUint32(b, offset + 18)
        uncompressedSize == getUint32(b, offset + 22)
        fileNameLength == getUint16(b, offset + 26)
        extraLength == getUint16(b, offset + 28)
        extraOffset == offset + 30 + fileNameLength
        z == IF IsZip64(compressedSize, uncompressedSize)
             THEN FindZip64(b, extraOffset, extraOffset + extraLength)
             ELSE [ok |-> TRUE, uncompressedSize |-> ToNumber(uncompressedSize),
                   compressedSize |-> ToNumber(compressedSize)]
    IN  IF extraLength > 0 /\ ~InBuffer(b, extraOffset, extraLength)
        THEN [ok |-> FALSE, msg |-> "RangeError"]
        ELSE IF ~z.ok THEN z
        ELSE IF fileNameLength > 0 /\ ~InBuffer(b, offset + 30, fileNameLength)
        THEN [ok |-> FALSE, msg |-> "RangeError"]
        ELSE [ok |-> TRUE,
              offset |-> offset,      \* history: where the header was read
              generalPurpose |-> getUint16(b, offset + 6),
              compressionMethod |-> getUint16(b, offset + 8),
              crc |-> getUint32(b, offset + 14),
              compressedSize |-> z.compressedSize,
              uncompressedSize |-> z.uncompressedSize,
              fileNameLength |-> fileNameLength,
              extraLength |-> extraLength,
              fileName |-> readString(b, offset + 30, fileNameLength),
              startsAt |-> 0]

RECURSIVE ScanDescriptor(_, _)
\* lines 108-118: the scan for the data descriptor from scanIndex on
ScanDescriptor(b, scanIndex) ==
    IF scanIndex + 20 <= Len(b)
    THEN IF /\ getUint32(b, scanIndex) = SigDescriptor
            /\ getUint16(b, scanIndex + 16) = SigPK
         THEN scanIndex + 4
         ELSE ScanDescriptor(b, scanIndex + 1)
    ELSE scanIndex

\* line 105 without the 30 bytes of the fixed header
StartsAtNoHeader(index, entry) == index + entry.fileNameLength + entry.extraLength

\* line 105
StartsAt(index, entry) == index + 30 + entry.fileNameLength + entry.extraLength

\* extract, lines 80-95: the bytes returned, or the error thrown
ExtractAnyMethod(b, entry) ==
    [ok |-> TRUE, bytes |-> Slice(b, entry.startsAt, SatAdd(entry.startsAt, entry.compressedSize))]
Extract(b, entry) ==
    LET data == Slice(b, entry.startsAt, SatAdd(entry.startsAt, entry.compressedSize))
    IN  IF entry.compressionMethod = 0 THEN [ok |-> TRUE, bytes |-> data]
        ELSE IF entry.compressionMethod = 8 THEN InflateRaw(data)
        ELSE [ok |-> FALSE, msg |-> "Unsupported compression method"]

\* the constructor has thrown: readTRX rejects
ZipThrow(msg) ==
    /\ result' = Failure(msg)
    /\ pc' = "done"
    /\ UNCHANGED <<zip, loc>>

\* line 98: the loop of read() goes on, or the constructor returns to readTRX
ZipContinue ==
    /\ pc' = IF ~zip'.eocd /\ ~zip'.unexpected /\ zip'.index < Len(buffer.bytes)
             THEN "zip_read" ELSE "trx_loop"
    /\ UNCHANGED <<loc, result>>

\* lines 98-140: one iteration of the loop of read()
ZipRead ==
    /\ fmt = "TRX" /\ pc = "zip_read"
    /\ ~zip.eocd /\ zip.index < Len(buffer.bytes)
    /\ LET b == buffer.bytes
           index == zip.index
       IN  IF ~InBuffer(b, index, 4) THEN ZipThrow("RangeError")
           ELSE LET signature == getUint32(b, index)
           IN  CASE signature = SigLocal ->
                     LET r == readLocalFile(b, index)
                         startsAt == StartsAt(index, r)
                         hasDataDescriptor == (r.generalPurpose \div 8) % 2 = 1
                     IN  IF ~r.ok THEN ZipThrow(r.msg)
                         ELSE IF r.compressedSize = 0 /\ hasDataDescriptor
                         THEN LET scanIndex == ScanDescriptor(b, startsAt)
                              IN  IF ~InBuffer(b, scanIndex, 12) THEN ZipThrow("RangeError")
                                  ELSE /\ zip' = [zip EXCEPT
                                            !.localFiles = Append(@,
                                                [r EXCEPT !.startsAt = startsAt,
                                                   !.crc = getUint32(b, scanIndex),
                                                   !.compressedSize = ToNumber(getUint32(b, scanIndex + 4)),
                                                   !.uncompressedSize = ToNumber(getUint32(b, scanIndex + 8))]),
                                            !.index = scanIndex + 12]
                                       /\ ZipContinue
                         ELSE /\ zip' = [zip EXCEPT
                                   !.localFiles = Append(@, [r EXCEPT !.startsAt = startsAt]),
                                   !.index = SatAdd(startsAt, r.compressedSize)]
                              /\ ZipContinue
                 [] signature = SigCentral ->
                     \* readCentralDirectory, lines 195-208
                     IF ~InBuffer(b, index, 46) \/ ~InBuffer(b, index + 46, getUint16(b, index + 32))
                     THEN ZipThrow("RangeError")
                     ELSE /\ zip' = [zip EXCEPT
                               !.centralDirectories = @ + 1,
                               !.index = index + 46 + getUint16(b, index + 28)
                                         + getUint16(b, index + 30) + getUint16(b, index + 32)]
                          /\ ZipContinue
                 [] signature = SigEnd ->
                     \* readEndCentralDirectory, lines 210-222
                     IF ~InBuffer(b, index, 22) \/ ~InBuffer(b, index + 22, getUint16(b, index + 20))
                     THEN ZipThrow("RangeError")
                     ELSE /\ zip' = [zip EXCEPT !.eocd = TRUE]
                          /\ ZipContinue
                 [] signature = SigEnd64 ->
                     \* readEndCentralDirectory64, lines 224-236
                     IF ~InBuffer(b, index, 56) THEN ZipThrow("RangeError")
                     ELSE /\ zip' = [zip EXCEPT !.eocd = TRUE]
                          /\ ZipContinue
                 [] OTHER ->
                     \* lines 136-139: console.error and break
                     /\ zip' = [zip EXCEPT !.unexpected = TRUE]
                     /\ ZipContinue
    /\ UNCHANGED <<fmt, buffer>>

(***************************************************************************)
(* readTRX (nvtract-loaders.ts)                                            *)
(*                                                                         *)
(* A typed array is [kind, n, bytes]: n elements over the bytes of its     *)
(* buffer; the array of decoded half floats holds its values instead.  An  *)
(* element of offsetPt0 or pts is a 32-bit word (for pts, the bits of the  *)
(* float).                                                                 *)
(***************************************************************************)
\* the text readTRX looks for in the name of an entry
TRXText ==
    [ headerJson |-> <<104, 101, 97, 100, 101, 114, 46, 106, 115, 111, 110>>,   \* 'header.json'
      uint64 |-> <<46, 117, 105, 110, 116, 54, 52>>,   \* '.uint64'
      int64 |-> <<46, 105, 110, 116, 54, 52>>,   \* '.int64'
      uint32 |-> <<46, 117, 105, 110, 116, 51, 50>>,   \* '.uint32'
      uint16 |-> <<46, 117, 105, 110, 116, 49, 54>>,   \* '.uint16'
      uint8 |-> <<46, 117, 105, 110, 116, 56>>,   \* '.uint8'
      int32 |-> <<46, 105, 110, 116, 51, 50>>,   \* '.int32'
      int16 |-> <<46, 105, 110, 116, 49, 54>>,   \* '.int16'
      int8 |-> <<46, 105, 110, 116, 56>>,   \* '.int8'
      float64 |-> <<46, 102, 108, 111, 97, 116, 54, 52>>,   \* '.float64'
      float32 |-> <<46, 102, 108, 111, 97, 116, 51, 50>>,   \* '.float32'
      float16 |-> <<46, 102, 108, 111, 97, 116, 49, 54>>,   \* '.float16'
      groups |-> <<103, 114, 111, 117, 112, 115>>,   \* 'groups'
      dpv |-> <<100, 112, 118>>,   \* 'dpv'
      dps |-> <<100, 112, 115>>,   \* 'dps'
      offsets |-> <<111, 102, 102, 115, 101, 116, 115, 46>>,   \* 'offsets.'
      positions |-> <<112, 111, 115, 105, 116, 105, 111, 110, 115, 46, 51, 46>>,   \* 'positions.3.'
      dot |-> <<46>> ]   \* '.'
Slash == 47      \* '/'

\* the names of the entries of the archives of the model
TRXName ==
    [ offsets32 |-> <<111, 102, 102, 115, 101, 116, 115, 46, 117, 105, 110, 116, 51, 50>>,   \* 'offsets.uint32'
      offsets64 |-> <<111, 102, 102, 115, 101, 116, 115, 46, 117, 105, 110, 116, 54, 52>>,   \* 'offsets.uint64'
      positions32 |-> <<112, 111, 115, 105, 116, 105, 111, 110, 115, 46, 51, 46, 102, 108, 111, 97, 116, 51, 50>>,   \* 'positions.3.float32'
      positions16 |-> <<112, 111, 115, 105, 116, 105, 111, 110, 115, 46, 51, 46, 102, 108, 111, 97, 116, 49, 54>>,   \* 'positions.3.float16'
      dps |-> <<100, 112, 115, 47, 97, 46, 102, 108, 111, 97, 116, 51, 50>>,   \* 'dps/a.float32'
      dpv |-> <<100, 112, 118, 47, 122, 46, 117, 105, 110, 116, 56>>,   \* 'dpv/z.uint8'
      header |-> <<104, 101, 97, 100, 101, 114, 46, 106, 115, 111, 110>>,   \* 'header.json'
      dir |-> <<100, 112, 115, 47>>,   \* 'dps/'
      hidden |-> <<46, 122, 46, 117, 105, 110, 116, 56>>,   \* '.z.uint8'
      text |-> <<120, 46, 116, 120, 116>>,   \* 'x.txt'
      inFolder |-> <<120, 100, 112, 115, 47, 111, 102, 102, 115, 101, 116, 115, 46, 117, 105, 110, 116, 51, 50>>,   \* 'xdps/offsets.uint32'
      rootDpv |-> <<100, 112, 118, 46, 117, 105, 110, 116, 56>> ]   \* 'dpv.uint8'

RECURSIVE Split(_, _)
\* s.split(c)
Split(s, c) ==
    LET first == FirstPart(s, c)
    IN  IF Len(first) = Len(s) THEN <<s>>
        ELSE <<first>> \o Split(SubSeq(s, Len(first) + 2, Len(s)), c)

RECURSIVE Pow2(_)
Pow2(n) == IF n = 0 THEN 1 ELSE 2 * Pow2(n - 1)

FInf(sign) == <<sign, 0>>     \* Infinity and -Infinity

\* lines 246-260
decodeFloat16(binary) ==
    LET exponent == (binary \div 1024) % 32
        fraction == binary % 1024
        sign == IF binary \div 32768 # 0 THEN -1 ELSE 1
    IN  IF exponent = 0 THEN Frac(sign * fraction, 16777216)
        ELSE IF exponent = 31 THEN (IF fraction # 0 THEN FNaN ELSE FInf(sign))
        ELSE IF exponent >= 15
        THEN Frac(sign * (1024 + fraction) * Pow2(exponent - 15), 1024)
        ELSE Frac(sign * (1024 + fraction), 1024 * Pow2(15 - exponent))

\* lines 293-339: the element type the name ends with
TRXKind(fname) ==
    IF EndsWith(fname, TRXText.uint64) \/ EndsWith(fname, TRXText.int64) THEN "int64"
    ELSE IF EndsWith(fname, TRXText.uint32) THEN "uint32"
    ELSE IF EndsWith(fname, TRXText.uint16) THEN "uint16"
    ELSE IF EndsWith(fname, TRXText.uint8) THEN "uint8"
    ELSE IF EndsWith(fname, TRXText.int32) THEN "int32"
    ELSE IF EndsWith(fname, TRXText.int16) THEN "int16"
    ELSE IF EndsWith(fname, TRXText.int8) THEN "int8"
    ELSE IF EndsWith(fname, TRXText.float64) THEN "float64"
    ELSE IF EndsWith(fname, TRXText.float32) THEN "float32"
    ELSE IF EndsWith(fname, TRXText.float16) THEN "float16"
    ELSE "none"

BytesPerElement(kind) ==
    CASE kind \in {"uint8", "int8"} -> 1
      [] kind \in {"uint16", "int16"} -> 2
      [] kind \in {"uint32", "int32", "float32"} -> 4
      [] OTHER -> 8

RangeError == [ok |-> FALSE, msg |-> "RangeError"]

\* new T(data.buffer): the byte length must be a multiple of the element size
TypedArray(kind, data) ==
    IF Len(data) % BytesPerElement(kind) # 0 THEN RangeError
    ELSE [ok |-> TRUE, kind |-> kind, n |-> Len(data) \div BytesPerElement(kind),
          bytes |-> data, overflow |-> FALSE]

RECURSIVE LowWords(_, _)
\* lines 301-308: the low word of each of the first n 64-bit values
LowWords(data, n) ==
    IF n = 0 THEN <<>> ELSE LowWords(data, n - 1) \o SubSeq(data, 8 * n - 7, 8 * n - 4)

\* the loop of lines 302-308 without its test
HighWordIgnored(data, n) == FALSE

\* lines 302-308: one of the first n 64-bit values has a high word that is not 0
HighWordSet(data, n) == \E i \in 0..(n - 1) : getUint32(data, 8 * i + 4) # 0

\* lines 293-339: vals, and whether a 64-bit value had a high word.  nval of
\* the 64-bit branch is data.length / 8, a fraction when the length is not a
\* multiple of 8: the loop then reads one high word past u32, undefined !== 0
TRXVals(kind, data) ==
    IF kind = "int64"
    THEN IF Len(data) % 4 # 0 THEN RangeError
         ELSE LET n == Len(data) \div 8
              IN  [ok |-> TRUE, kind |-> "uint32", n |-> n, bytes |-> LowWords(data, n),
                   overflow |-> Len(data) % 8 # 0 \/ HighWordSet(data, n)]
    ELSE IF kind = "float16"
    THEN IF Len(data) % 2 # 0 THEN RangeError
         ELSE [ok |-> TRUE, kind |-> "decoded", n |-> Len(data) \div 2,
               bytes |-> <<>>, overflow |-> FALSE,
               values |-> [k \in 1..(Len(data) \div 2) |->
                              decodeFloat16(getUint16(data, 2 * (k - 1)))]]
    ELSE TypedArray(kind, data)

\* vals.slice(): the elements, each as the bytes that hold it (or its value)
Elements(vals) ==
    IF vals.kind = "decoded" THEN vals.values
    ELSE LET w == BytesPerElement(vals.kind)
         IN  [k \in 1..vals.n |-> SubSeq(vals.bytes, w * (k - 1) + 1, w * k)]

\* new Uint32Array(vals.buffer), new Float32Array(vals.buffer): the words of
\* the buffer of vals
View32(vals) ==
    IF vals.kind = "decoded" THEN [ok |-> TRUE, words |-> vals.values]
    ELSE IF Len(vals.bytes) % 4 # 0 THEN RangeError
    ELSE [ok |-> TRUE,
          words |-> [k \in 1..(Len(vals.bytes) \div 4) |-> getUint32(vals.bytes, 4 * (k - 1))]]

\* JSON.parse of the texts of the model: {} is an object, the other texts
\* the archives carry are no JSON
JsonParse(data) ==
    IF data = <<123, 125>> THEN [ok |-> TRUE, value |-> "{}"]
    ELSE [ok |-> FALSE, msg |-> "SyntaxError"]

\* offsets of one streamline, of two; one vertex, two vertices; attributes
TRXPayload ==
    [ offsets32 |-> I32LE(0),
      offsets64 |-> U64LE(0) \o U64LE(1),
      positions32 |-> F32Bytes(1) \o F32Bytes(2) \o F32Bytes(3),
      positions16 |-> <<0, 60, 0, 64, 0, 66, 0, 68, 0, 69, 0, 70>>,
      dps |-> F32Bytes(1),
      dpv |-> <<7, 8>> ]

Stored(name, payload) == Local(name, 0, payload, "plain")

\* the entries a TRX archive of the model is made of
TRXFiles ==
    { Stored(TRXName.offsets32, TRXPayload.offsets32), Stored(TRXName.offsets64, TRXPayload.offsets64),
      Stored(TRXName.positions32, TRXPayload.positions32), Stored(TRXName.positions16, TRXPayload.positions16),
      Stored(TRXName.dps, TRXPayload.dps), Stored(TRXName.dpv, TRXPayload.dpv) }

Modes == {"plain"} \cup DescriptorModes \cup Zip64Modes

\* what follows the entries
Tails ==
    { <<Central(TRXName.offsets32), Central(TRXName.positions32), EndRecord>>,
      <<EndRecord>>, <<End64Record>>, <<>>,
      <<Junk(<<0, 0, 0, 0>>)>>, <<Junk(<<80, 75>>)>>,
      <<EndRecord, Stored(TRXName.dps, TRXPayload.dps)>> }

\* archives of entries written in every way the reader distinguishes
LayoutArchives ==
    { <<Local(TRXName.offsets32, m, TRXPayload.offsets32, mode), Stored(TRXName.positions32, TRXPayload.positions32)>> \o t :
        m \in {0, 8, 9}, mode \in Modes, t \in Tails }
    \cup
    { <<Stored(TRXName.offsets32, TRXPayload.offsets32), Local(TRXName.positions32, m, TRXPayload.positions32, mode)>> \o t :
        m \in {0, 8, 9}, mode \in Modes, t \in Tails }
    \cup
    { <<Local(TRXName.text, m, TRXPayload.dpv, mode)>> \o t : m \in {0, 8, 9}, mode \in Modes, t \in Tails }
    \cup
    { <<Stored(TRXName.offsets32, TRXPayload.offsets32), Stored(TRXName.positions32, TRXPayload.positions32)>> \o mid
        \o <<Stored(TRXName.dps, TRXPayload.dps), EndRecord>> :
        mid \in { <<Junk(<<0, 0, 0, 0>>)>>, <<Stored(TRXName.header, <<123, 125>>)>>,
                  <<Stored(TRXName.header, <<123>>)>>, <<Stored(TRXName.dir, <<>>)>>,
                  <<Stored(TRXName.hidden, TRXPayload.dpv)>>, <<Stored(TRXName.text, TRXPayload.dpv)>>,
                  <<Stored(TRXName.offsets64, U64LE(0) \o I32LE(0) \o I32LE(1))>>,
                  <<Stored(TRXName.dpv, TRXPayload.dpv)>>,
                  <<Stored(TRXName.inFolder, TRXPayload.offsets64)>>,
                  <<Stored(TRXName.rootDpv, TRXPayload.dpv)>> } }

TRXArchives ==
    LayoutArchives \cup { a \o <<EndRecord>> : a \in SeqsUpTo(TRXFiles, MaxEntries) }

TRXBuffers == { [items |-> a, bytes |-> ArchiveBytes(a)] : a \in TRXArchives }

InitTRX ==
    /\ fmt = "TRX"
    /\ buffer \in TRXBuffers
    /\ pc = "trx_open"
    /\ loc = [i |-> 0]
    /\ zip = NoZip
    /\ result = Pending

\* lines 261-270: the locals, and the Zip constructor up to its loop
TRXOpen ==
    /\ fmt = "TRX" /\ pc = "trx_open"
    /\ loc' = [i |-> 0, noff |-> 0, npt |-> 0, pts |-> <<>>, offsetPt0 |-> <<>>,
               dpg |-> <<>>, dps |-> <<>>, dpv |-> <<>>, header |-> <<>>,
               isOverflowUint64 |-> FALSE,
               offsets |-> <<>>]     \* history: the values parsed from the offsets entry
    /\ pc' = IF zip.index < Len(buffer.bytes) THEN "zip_read" ELSE "trx_loop"
    /\ UNCHANGED <<fmt, buffer, zip, result>>

\* readTRX rejects
TRXThrow(msg) ==
    /\ result' = Failure(msg)
    /\ pc' = "done"
    /\ UNCHANGED loc

\* the continue statements of the loop, and its end
TRXContinue(l) ==
    /\ loc' = [l EXCEPT !.i = @ + 1]
    /\ pc' = "trx_loop"
    /\ UNCHANGED result

\* lines 276-282
TRXfname(entry) == LET parts == Split(entry.fileName, Slash) IN parts[Len(parts)]
TRXpname(entry) ==
    LET parts == Split(entry.fileName, Slash)
    IN  IF Len(parts) >= 2 THEN parts[Len(parts) - 1] ELSE parts[1]
TRXtag(entry) == FirstPart(TRXfname(entry), TRXText.dot[1])

\* lines 271-283: an entry is skipped, or its extraction is awaited
TRXEntry ==
    /\ fmt = "TRX" /\ pc = "trx_loop"
    /\ loc.i < Len(zip.localFiles)
    /\ LET entry == zip.localFiles[loc.i + 1]
       IN  IF entry.uncompressedSize = 0 \/ StartsWith(TRXfname(entry), TRXText.dot)
           THEN TRXContinue(loc)
           ELSE pc' = "trx_extract" /\ UNCHANGED <<loc, result>>
    /\ UNCHANGED <<fmt, buffer, zip>>

\* lines 283-372: the extracted entry is decoded and routed
TRXData ==
    /\ fmt = "TRX" /\ pc = "trx_extract"
    /\ LET entry == zip.localFiles[loc.i + 1]
           fname == TRXfname(entry)
           pname == TRXpname(entry)
           x == Extract(buffer.bytes, entry)
           vals == TRXVals(TRXKind(fname), x.bytes)
           seen == [loc EXCEPT !.isOverflowUint64 = @ \/ vals.overflow]
           attr == [id |-> TRXtag(entry), vals |-> Elements(vals)]
           view == View32(vals)
       IN  IF ~x.ok THEN TRXThrow(x.msg)
           ELSE IF Includes(fname, TRXText.headerJson)
           THEN LET j == JsonParse(x.bytes)
                IN  IF j.ok THEN TRXContinue([loc EXCEPT !.header = j.value])
                    ELSE TRXThrow(j.msg)
           ELSE IF TRXKind(fname) = "none" THEN TRXContinue(loc)
           ELSE IF ~vals.ok THEN TRXThrow(vals.msg)
           ELSE IF Includes(pname, TRXText.groups)
           THEN TRXContinue([seen EXCEPT !.dpg = Append(@, attr)])
           ELSE IF Includes(pname, TRXText.dpv)
           THEN TRXContinue([seen EXCEPT !.dpv = Append(@, attr)])
           ELSE IF Includes(pname, TRXText.dps)
           THEN TRXContinue([seen EXCEPT !.dps = Append(@, attr)])
           ELSE IF StartsWith(fname, TRXText.offsets)
           THEN IF ~view.ok THEN TRXThrow(view.msg)
                ELSE TRXContinue([seen EXCEPT !.noff = vals.n, !.offsetPt0 = view.words,
                                              !.offsets = view.words])
           ELSE IF StartsWith(fname, TRXText.positions)
           THEN IF ~view.ok THEN TRXThrow(view.msg)
                ELSE TRXContinue([seen EXCEPT !.npt = vals.n, !.pts = view.words])
           ELSE TRXContinue(seen)
    /\ UNCHANGED <<fmt, buffer, zip>>

\* the test of lines 374-376 with "and" for "or"
TRXMissingBoth(l) == l.noff = 0 /\ l.npt = 0

\* lines 374-376: offsets or points were never found
TRXMissing(l) == l.noff = 0 \/ l.npt = 0

\* lines 374-389
TRXFinish ==
    /\ fmt = "TRX" /\ pc = "trx_loop"
    /\ ~(loc.i < Len(zip.localFiles))
    /\ IF TRXMissing(loc)
       THEN result' = Failure("Failure reading TRX format (no offsets or points).")
       ELSE IF loc.isOverflowUint64
       THEN result' = Failure("Too many vertices: JavaScript does not support 64 bit integers")
       ELSE result' = [kind |-> "ok",
                       pts |-> loc.pts,
                       offsetPt0 |-> ArraySet(loc.offsetPt0, loc.noff, loc.npt \div 3),
                       dpg |-> loc.dpg, dps |-> loc.dps, dpv |-> loc.dpv,
                       header |-> loc.header]
    /\ pc' = "done"
    /\ UNCHANGED <<fmt, buffer, loc, zip>>

NextTRX == TRXOpen \/ ZipRead \/ TRXEntry \/ TRXData \/ TRXFinish

SpecTRX == InitTRX /\ [][NextTRX]_vars

\* the constructor of Zip runs to its end without a pause: its steps are taken
SpecTRXFair == SpecTRX /\ WF_vars(TRXOpen) /\ WF_vars(ZipRead)

\* readTRK and readTRX, for what both promise of a Tractogram
InitTractogram == InitTRK \/ InitTRX
NextTractogram == NextTRK \/ NextTRX
SpecTractogram == InitTractogram /\ [][NextTractogram]_vars

(***************************************************************************)
(* Two readTRX invocations on one event loop.  An invocation runs until it *)
(* awaits (line 283) or ends; then the other may be resumed.  The variables *)
(* hold the invocation that runs; buffer.parked holds the one that waits.  *)
(* After both have ended each buffer is decoded once more by an invocation *)
(* that runs alone, and buffer.results collects the four results.          *)
(***************************************************************************)
MaxSwitches == 4

\* archives of two entries: stored, deflated, of an unsupported method, and
\* without offsets
TwoArchives ==
    { <<Stored(TRXName.offsets32, TRXPayload.offsets32),
        Stored(TRXName.positions32, TRXPayload.positions32), EndRecord>>,
      <<Stored(TRXName.offsets64, TRXPayload.offsets64),
        Local(TRXName.positions16, 8, TRXPayload.positions16, "plain"), EndRecord>>,
      <<Stored(TRXName.offsets32, TRXPayload.offsets32),
        Local(TRXName.positions32, 9, TRXPayload.positions32, "plain"), EndRecord>>,
      <<Stored(TRXName.dps, TRXPayload.dps),
        Stored(TRXName.positions32, TRXPayload.positions32), EndRecord>> }

\* lines 243, 261-270: an invocation that has not begun, with its buffer
Fresh(a) ==
    [items |-> a, bytes |-> ArchiveBytes(a), pc |-> "trx_open", loc |-> [i |-> 0],
     zip |-> NoZip, result |-> Pending]

\* the invocation that runs
Running ==
    [items |-> buffer.items, bytes |-> buffer.bytes, pc |-> pc, loc |-> loc,
     zip |-> zip, result |-> result]

\* one entry list for every Zip, as a static field would be
InvocationZipSharedEntries(own, current) == [own EXCEPT !.localFiles = current.localFiles]

\* line 270: the Zip is a local of the invocation, const zip = new Zip(buffer)
InvocationZip(own, current) == own

InitTwoTRX ==
    /\ fmt = "TRX"
    /\ \E a \in TwoArchives, b \in TwoArchives :
          buffer = [items |-> a, bytes |-> ArchiveBytes(a), parked |-> Fresh(b),
                    id |-> 1, phase |-> "together", switches |-> 0,
                    first |-> a, second |-> b, results |-> <<>>]
    /\ pc = "trx_open"
    /\ loc = [i |-> 0]
    /\ zip = NoZip
    /\ result = Pending

\* the invocation c is resumed
Resume(c) ==
    /\ pc' = c.pc
    /\ loc' = c.loc
    /\ zip' = InvocationZip(c.zip, zip)
    /\ result' = c.result

\* line 283: the running invocation awaits, or has ended, and the other one
\* is resumed
Switch ==
    /\ fmt = "TRX" /\ buffer.phase = "together"
    /\ pc \in {"trx_extract", "done"}
    /\ buffer.parked.pc # "done"
    /\ buffer.switches < MaxSwitches
    /\ buffer' = [buffer EXCEPT !.items = buffer.parked.items, !.bytes = buffer.parked.bytes,
                                !.parked = Running, !.id = 3 - @, !.switches = @ + 1]
    /\ Resume(buffer.parked)
    /\ UNCHANGED fmt

\* both invocations have ended: the first buffer, then the second, is
\* decoded by an invocation that runs alone
RunAlone ==
    /\ fmt = "TRX" /\ pc = "done"
    /\ \/ /\ buffer.phase = "together" /\ buffer.parked.pc = "done"
          /\ buffer' = [buffer EXCEPT !.items = buffer.first, !.bytes = ArchiveBytes(buffer.first),
                                      !.phase = "alone1",
                                      !.results = IF buffer.id = 1 THEN <<result, buffer.parked.result>>
                                                  ELSE <<buffer.parked.result, result>>]
          /\ Resume(Fresh(buffer.first))
       \/ /\ buffer.phase = "alone1"
          /\ buffer' = [buffer EXCEPT !.items = buffer.second, !.bytes = ArchiveBytes(buffer.second),
                                      !.phase = "alone2", !.results = Append(@, result)]
          /\ Resume(Fresh(buffer.second))
       \/ /\ buffer.phase = "alone2"
          /\ buffer' = [buffer EXCEPT !.phase = "end", !.results = Append(@, result)]
          /\ UNCHANGED <<pc, loc, zip, result>>
    /\ UNCHANGED fmt

NextTwoTRX == TRXOpen \/ ZipRead \/ TRXEntry \/ TRXData \/ TRXFinish \/ Switch \/ RunAlone

SpecTwoTRX == InitTwoTRX /\ [][NextTwoTRX]_vars

(***************************************************************************)
(* readTRX of an archive, and then of the archive without one entry that   *)
(* readTRX skips or ignores: buffer.first and buffer.second, each decoded  *)
(* by an invocation that runs alone.                                       *)
(***************************************************************************)
\* entries readTRX skips (a folder, a dot-prefixed name) or ignores (a name
\* without numeric suffix), of every compression method
PassedOver ==
    { Local(n, m, TRXPayload.dpv, "plain") : n \in {TRXName.text, TRXName.hidden}, m \in {0, 8, 9} }
    \cup { Local(TRXName.dir, m, <<>>, "plain") : m \in {0, 9} }

\* the entries of an archive that decodes, and of one without offsets
FrameEntries ==
    { <<Stored(TRXName.offsets32, TRXPayload.offsets32),
        Stored(TRXName.positions32, TRXPayload.positions32),
        Stored(TRXName.dps, TRXPayload.dps)>>,
      <<Stored(TRXName.positions32, TRXPayload.positions32)>> }

InsertAt(a, e, k) == SubSeq(a, 1, k) \o <<e>> \o SubSeq(a, k + 1, Len(a))

InitFrameTRX ==
    /\ fmt = "TRX"
    /\ \E a \in FrameEntries, e \in PassedOver :
          \E k \in 0..Len(a) :
             LET with == InsertAt(a, e, k) \o <<EndRecord>>
             IN  buffer = [items |-> with, bytes |-> ArchiveBytes(with), phase |-> "alone1",
                           first |-> with, second |-> a \o <<EndRecord>>, results |-> <<>>]
    /\ pc = "trx_open"
    /\ loc = [i |-> 0]
    /\ zip = NoZip
    /\ result = Pending

NextFrameTRX == TRXOpen \/ ZipRead \/ TRXEntry \/ TRXData \/ TRXFinish \/ RunAlone

SpecFrameTRX == InitFrameTRX /\ [][NextFrameTRX]_vars

(***************************************************************************)
(*                               Claims                                    *)
(***************************************************************************)

(***************************************************************************)
(* C1: for a TRK buffer with a valid header and a body of K >= 1 complete  *)
(* streamline records, readTRK returns offsetPt0 of K+1 entries, entry i   *)
(* being the total vertex count of records 0..i-1 (so entry 0 is 0), and   *)
(* the last entry equal to pts.length/3.                                   *)
(***************************************************************************)
C1_TRKFencePost ==
    (fmt = "TRK" /\ result.kind = "ok") =>
        LET K == Len(buffer.recs)
        IN  /\ Len(result.offsetPt0) = K + 1
            /\ \A i \in 0..K :
                  result.offsetPt0[i + 1] = SumSeq(SubSeq(buffer.recs, 1, i))
            /\ 3 * result.offsetPt0[K + 1] = Len(result.pts)

(***************************************************************************)
(* C4: for a TCK buffer whose data section is K runs of finite triplets,   *)
(* each followed by a NaN triplet, and then one infinity triplet, readTCK  *)
(* returns offsetPt0 of K+1 entries, entry i being the number of vertices  *)
(* of runs 0..i-1 (so entry 0 is 0), and pts of three floats per finite    *)
(* triplet.                                                                *)
(***************************************************************************)
C4_TCKStreamlines ==
    (/\ fmt = "TCK" /\ result.kind = "ok"
     /\ buffer.inf /\ buffer.fileLine \in {TxtFile40, TxtFILE40}) =>
        LET K == Len(buffer.runs)
        IN  /\ Len(result.offsetPt0) = K + 1
            /\ \A i \in 0..K :
                  result.offsetPt0[i + 1] = SumSeq(SubSeq(buffer.runs, 1, i))
            /\ Len(result.pts) = 3 * SumSeq(buffer.runs)

(***************************************************************************)
(* C5: for a TT track blob of records whose size field s is a positive     *)
(* multiple of 3, readTT yields s/3 points per record: the first point is  *)
(* the three int32 at bytes 4-15, point k is the first point plus the      *)
(* per-axis sum of the first k deltas, each coordinate divided by 32 and   *)
(* then mapped by trans_to_mni (row c of the stored matrix applied to the  *)
(* point, plus its fourth entry).  With the identity, the one record of    *)
(* size 3 at (32,64,96) decodes to the point (1,2,3).                      *)
(***************************************************************************)
TTExpectedPoint(r, k) ==
    [c \in 1..3 |-> r.first[c] + SumSeq([i \in 1..k |-> r.deltas[i][c]])]

TTExpectedCoord(m, c, P) ==
    FAdd(Frac(m[4 * (c - 1) + 1] * P[1] + m[4 * (c - 1) + 2] * P[2]
              + m[4 * (c - 1) + 3] * P[3], 32),
         Num(m[4 * (c - 1) + 4]))

RECURSIVE TTExpected(_, _)
TTExpected(recs, m) ==
    IF recs = <<>> THEN <<>>
    ELSE [k \in 1..recs[1].size |->
             TTExpectedCoord(m, ((k - 1) % 3) + 1, TTExpectedPoint(recs[1], (k - 1) \div 3))]
         \o TTExpected(Tail(recs), m)

TTWellFormed ==
    /\ fmt = "TT" /\ buffer.has = TTVariables
    /\ \A k \in 1..Len(buffer.recs) :
          buffer.recs[k].size > 0 /\ buffer.recs[k].size % 3 = 0

C5_TTPoints ==
    (TTWellFormed /\ pc = "done") =>
        /\ result.kind = "ok"
        /\ result.pts = TTExpected(buffer.recs, buffer.trans_to_mni)
        /\ (/\ buffer.trans_to_mni = <<1, 0, 0, 0,  0, 1, 0, 0,  0, 0, 1, 0,  0, 0, 0, 1>>
            /\ buffer.recs = <<[size |-> 3, first |-> <<32, 64, 96>>, deltas |-> <<>>]>>)
              => result.pts = <<Num(1), Num(2), Num(3)>>

C5_Witness ==
    /\ TTWellFormed /\ pc = "done" /\ result.kind = "ok"
    /\ Len(buffer.recs) = 2
    /\ buffer.recs[1].size = 9 /\ buffer.recs[2].size = 6
    /\ buffer.trans_to_mni[1] = 2

(***************************************************************************)
(* C6: for every track blob on which readTT returns, records of size 0 or  *)
(* of a size that is no multiple of 3 included, offsetPt0 has one more     *)
(* entry than there are records, starts at 0, never decreases, and ends    *)
(* at pts.length/3.                                                        *)
(***************************************************************************)
C6_TTFencePost ==
    (fmt = "TT" /\ result.kind = "ok") =>
        LET off == result.offsetPt0
        IN  /\ Len(off) = Len(buffer.recs) + 1
            /\ off[1] = 0
            /\ \A k \in 1..(Len(off) - 1) : off[k] <= off[k + 1]
            /\ 3 * off[Len(off)] = Len(result.pts)

\* C2: a Tractogram returned by readTRX has one offset more than the N values
\* parsed from the offsets entry: the first N are the parsed offsets and the
\* last is P/3, the number of vertices, P being the number of position values.
C2_TRXFencePost ==
    (fmt = "TRX" /\ result.kind = "ok") =>
        LET N == loc.noff
            P == loc.npt
        IN  /\ Len(result.offsetPt0) = N + 1
            /\ \A k \in 1..N : result.offsetPt0[k] = loc.offsets[k]
            /\ result.offsetPt0[N + 1] = P \div 3
            /\ 3 * result.offsetPt0[N + 1] = Len(result.pts)

\* the number of values of an attribute array of a Tractogram
AttributeLength(a) == IF fmt = "TRX" THEN Len(a.vals) ELSE Len(a)

\* C3: in a Tractogram returned by readTRK or readTRX every per-vertex array
\* has pts.length/3 values and every per-streamline array has
\* offsetPt0.length - 1 values.
C3_AttributeLengths ==
    (fmt \in {"TRK", "TRX"} /\ result.kind = "ok") =>
        /\ \A s \in 1..Len(result.dpv) :
              3 * AttributeLength(result.dpv[s]) = Len(result.pts)
        /\ \A s \in 1..Len(result.dps) :
              AttributeLength(result.dps[s]) = Len(result.offsetPt0) - 1

\* C8: once the scan of the archive has read a signature that is none of the
\* four it knows, readTRX returns no Tractogram.
C8_UnknownSignatureFatal ==
    (fmt = "TRX" /\ zip.unexpected) => result.kind # "ok"

\* the local header of an enumerated entry, as the archive holds it
HeaderCompressedSize(e) == getUint32(buffer.bytes, e.offset + 18)
HeaderUncompressedSize(e) == getUint32(buffer.bytes, e.offset + 22)
HeaderZip64(e) ==
    FindZip64(buffer.bytes, e.offset + 30 + e.fileNameLength,
              e.offset + 30 + e.fileNameLength + e.extraLength)

\* C9: an enumerated entry whose header declares the sentinel as its
\* compressed or its uncompressed size has a ZIP64 record in its extra field
\* (an archive without one is not opened), its sizes are the two 64-bit
\* values of that record, and extraction slices by that compressed size.
C9_Zip64Sizes ==
    fmt = "TRX" =>
        \A k \in 1..Len(zip.localFiles) :
            LET e == zip.localFiles[k]
                z == HeaderZip64(e)
            IN  (HeaderCompressedSize(e) = Sentinel \/ HeaderUncompressedSize(e) = Sentinel) =>
                    /\ z.ok
                    /\ e.compressedSize = z.compressedSize
                    /\ e.uncompressedSize = z.uncompressedSize
                    /\ e.compressionMethod = 0 =>
                          Extract(buffer.bytes, e).bytes =
                              Slice(buffer.bytes, e.startsAt, e.startsAt + z.compressedSize)

\* the local-file records of an archive and where each begins
LocalPositions(items) ==
    SelectSeq([j \in 1..Len(items) |-> j], LAMBDA j : items[j].kind = "local")
RECURSIVE ItemOffset(_, _)
ItemOffset(items, j) ==
    IF j = 1 THEN 0 ELSE ItemOffset(items, j - 1) + Len(ItemBytes(items[j - 1]))

\* the bytes of the archive at the offsets startsAt <= o < startsAt + compressedSize
SourceBytes(e) ==
    LET b == buffer.bytes
        from == Min(e.startsAt, Len(b))
        n == Min(e.compressedSize, Len(b) - from)
    IN  [i \in 1..n |-> b[from + i]]

\* a minimal archive of one stored entry
OneStoredEntry ==
    /\ Len(LocalPositions(buffer.items)) = 1
    /\ buffer.items[1].kind = "local"
    /\ buffer.items[1].method = 0
    /\ buffer.items[1].mode = "plain"

\* C10: for every enumerated entry, extract returns the source bytes from
\* startsAt to startsAt + compressedSize unchanged when the method is 0,
\* inflates them as raw deflate when it is 8, and fails as unsupported
\* otherwise; startsAt is the offset of the local header plus 30 plus the
\* lengths of the name and of the extra field; the entry of a one-entry
\* stored archive extracts to the payload it was written from.
C10_Extract ==
    fmt = "TRX" =>
        /\ \A k \in 1..Len(zip.localFiles) :
              LET e == zip.localFiles[k]
                  j == LocalPositions(buffer.items)[k]
                  it == buffer.items[j]
                  x == Extract(buffer.bytes, e)
              IN  /\ e.startsAt = ItemOffset(buffer.items, j) + 30 + Len(it.name) + Len(ItemExtra(it))
                  /\ e.startsAt = e.offset + 30 + e.fileNameLength + e.extraLength
                  /\ e.compressionMethod = 0 => x = [ok |-> TRUE, bytes |-> SourceBytes(e)]
                  /\ e.compressionMethod = 8 => x = InflateRaw(SourceBytes(e))
                  /\ e.compressionMethod \notin {0, 8} =>
                        ~x.ok /\ x.msg = "Unsupported compression method"
        /\ (OneStoredEntry /\ Len(zip.localFiles) >= 1) =>
              Extract(buffer.bytes, zip.localFiles[1]) =
                  [ok |-> TRUE, bytes |-> buffer.items[1].payload]

\* the entry of a one-entry stored archive has been extracted and passed over
C10_Witness ==
    /\ fmt = "TRX" /\ OneStoredEntry
    /\ pc = "trx_loop" /\ loc.i = 1 /\ Len(zip.localFiles) = 1
    /\ zip.localFiles[1].fileName = TRXName.text
    /\ buffer.items[1].payload # <<>>

\* a <= b for two unsigned 32-bit words
ULe(a, b) == IF (a < 0) = (b < 0) THEN a <= b ELSE b < 0

\* C7: in whatever readVTK returns, from the OFFSETS branch or from the
\* standard LINES branch, offsetPt0 starts with 0, never decreases and ends
\* with pts.length/3; in the standard branch it has one entry more than the
\* declared line count, and entry c+1 is the sum of the vertex counts of
\* lines 0..c.
C7_VTKFencePost ==
    (fmt = "VTK" /\ result.kind = "ok") =>
        LET off == result.offsetPt0
            n == ParseInt(buffer.file.n_count)
            counts == [k \in 1..Len(buffer.file.lines) |-> buffer.file.lines[k].count]
        IN  /\ Len(off) >= 1 /\ off[1] = 0
            /\ \A k \in 1..(Len(off) - 1) : ULe(off[k], off[k + 1])
            /\ 3 * off[Len(off)] = Len(result.pts)
            /\ buffer.file.branch = "lines" =>
                  /\ ~n.nan /\ Len(off) = n.val + 1
                  /\ \A c \in 0..(n.val - 1) : off[c + 2] = SumSeq(SubSeq(counts, 1, c + 1))

\* where the data descriptor of the local-file record j of the archive begins
DescriptorAt(j) ==
    LET it == buffer.items[j]
    IN  ItemOffset(buffer.items, j) + 30 + Len(it.name) + Len(ItemExtra(it)) + Len(ItemData(it))

\* the record j has flag bit 3 set and is followed by a data descriptor: the
\* signature, and PK at +16 in the four bytes that begin the next record
HasDescriptor(j) ==
    /\ buffer.items[j].kind = "local" /\ buffer.items[j].mode \in DescriptorModes
    /\ InBuffer(buffer.bytes, DescriptorAt(j), 20)
    /\ getUint32(buffer.bytes, DescriptorAt(j)) = SigDescriptor
    /\ getUint16(buffer.bytes, DescriptorAt(j) + 16) = SigPK

\* C11: for every enumerated entry whose flag bit 3 is set and whose data
\* descriptor is in the archive, whatever sizes its header declares, the CRC
\* and the sizes of the entry are the three fields after the signature of
\* the descriptor, the cursor is left on the first byte after the
\* descriptor, and a local entry that follows is enumerated.
C11_DataDescriptor ==
    fmt = "TRX" =>
        \A k \in 1..Len(zip.localFiles) :
            LET e == zip.localFiles[k]
                j == LocalPositions(buffer.items)[k]
                d == DescriptorAt(j)
            IN  HasDescriptor(j) =>
                    /\ e.crc = getUint32(buffer.bytes, d + 4)
                    /\ e.compressedSize = ToNumber(getUint32(buffer.bytes, d + 8))
                    /\ e.uncompressedSize = ToNumber(getUint32(buffer.bytes, d + 12))
                    /\ (Len(zip.localFiles) = k /\ zip.centralDirectories = 0) => zip.index = d + 16
                    /\ (pc \in {"trx_loop", "trx_extract"} /\ j < Len(buffer.items)
                        /\ buffer.items[j + 1].kind = "local") => Len(zip.localFiles) > k


\* the entry is one readTRX decodes: not skipped, and with a numeric suffix
IsDataEntry(entry) ==
    /\ entry.uncompressedSize # 0
    /\ ~StartsWith(TRXfname(entry), TRXText.dot)
    /\ ~Includes(TRXfname(entry), TRXText.headerJson)
    /\ TRXKind(TRXfname(entry)) # "none"

\* the path component directly before the last '/', <<>> when there is none
Parent(entry) ==
    LET parts == Split(entry.fileName, Slash)
    IN  IF Len(parts) >= 2 THEN parts[Len(parts) - 1] ELSE <<>>

\* the entry is a data entry of the container root: its parent is no section
IsRootLevel(entry) ==
    IsDataEntry(entry) /\ Parent(entry) \notin {TRXText.groups, TRXText.dpv, TRXText.dps}

\* among the first n entries of the archive there is a root-level array whose
\* name begins with the prefix
RootFound(prefix, n) ==
    \E k \in 1..n : IsRootLevel(zip.localFiles[k]) /\ StartsWith(TRXfname(zip.localFiles[k]), prefix)

\* C12: when readTRX has ended and the entries of the archive hold no
\* root-level offsets array or no root-level positions array, readTRX has
\* failed and returned no Tractogram.
C12_MissingArrays ==
    (fmt = "TRX" /\ pc = "done"
        /\ (~RootFound(TRXText.offsets, Len(zip.localFiles))
             \/ ~RootFound(TRXText.positions, Len(zip.localFiles))))
    => result.kind = "error"

\* all entries were processed, the positions were found and the offsets were
\* not, and readTRX failed for it
C12_Witness ==
    /\ fmt = "TRX" /\ pc = "done"
    /\ Len(zip.localFiles) >= 1 /\ loc.i = Len(zip.localFiles)
    /\ RootFound(TRXText.positions, Len(zip.localFiles))
    /\ ~RootFound(TRXText.offsets, Len(zip.localFiles))
    /\ loc.npt > 0
    /\ result = Failure("Failure reading TRX format (no offsets or points).")


\* the bytes the entry k of the archive extracts to
EntryData(k) == Extract(buffer.bytes, zip.localFiles[k]).bytes

\* the entry k holds 64-bit integers, and readTRX has decoded it
Processed64(k) ==
    /\ k <= loc.i
    /\ IsDataEntry(zip.localFiles[k])
    /\ EndsWith(TRXfname(zip.localFiles[k]), TRXText.uint64)
       \/ EndsWith(TRXfname(zip.localFiles[k]), TRXText.int64)
    /\ Extract(buffer.bytes, zip.localFiles[k]).ok
    /\ Len(EntryData(k)) % 8 = 0

\* the 32-bit word at byte 4 of a 64-bit value of the entry k is not 0
HasHighWord(k) ==
    \E i \in 0..(Len(EntryData(k)) \div 8 - 1) : getUint32(EntryData(k), 8 * i + 4) # 0

\* the entry k is the last root-level offsets array of the archive
LastOffsets(k) ==
    /\ IsRootLevel(zip.localFiles[k]) /\ StartsWith(TRXfname(zip.localFiles[k]), TRXText.offsets)
    /\ \A j \in (k + 1)..Len(zip.localFiles) :
           ~(IsRootLevel(zip.localFiles[j]) /\ StartsWith(TRXfname(zip.localFiles[j]), TRXText.offsets))

\* C13: when readTRX has ended and a 64-bit entry it decoded holds a value
\* with a nonzero high word, it has failed; when it returns a Tractogram whose
\* offsets come from a 64-bit entry, each offset is the low word of its value.
C13_Overflow64 ==
    (fmt = "TRX" /\ pc = "done") =>
        \A k \in 1..Len(zip.localFiles) :
            /\ (Processed64(k) /\ HasHighWord(k)) => result.kind = "error"
            /\ (Processed64(k) /\ LastOffsets(k) /\ result.kind = "ok") =>
                   \A i \in 1..(Len(EntryData(k)) \div 8) :
                       result.offsetPt0[i] = getUint32(EntryData(k), 8 * (i - 1))

\* offsets and positions were found, a 64-bit entry has a high word, and
\* readTRX failed for it
C13_Witness ==
    /\ fmt = "TRX" /\ pc = "done"
    /\ loc.noff > 0 /\ loc.npt > 0
    /\ \E k \in 1..Len(zip.localFiles) : Processed64(k) /\ HasHighWord(k)
    /\ result = Failure("Too many vertices: JavaScript does not support 64 bit integers")


\* how many of the first n entries are data entries whose parent is the section
InSection(section, n) ==
    Cardinality({ k \in 1..n : IsDataEntry(zip.localFiles[k]) /\ Parent(zip.localFiles[k]) = section })

\* the last of the first n entries that is a root-level array whose name
\* begins with the prefix, 0 when there is none
LastRoot(prefix, n) ==
    LET found == { k \in 1..n : IsRootLevel(zip.localFiles[k])
                                 /\ StartsWith(TRXfname(zip.localFiles[k]), prefix) }
    IN  IF found = {} THEN 0 ELSE CHOOSE k \in found : \A j \in found : j <= k

\* how many values the entry k decodes to
ValueCount(k) == TRXVals(TRXKind(TRXfname(zip.localFiles[k])), EntryData(k)).n

\* C14: after readTRX has processed the first loc.i entries, the attribute
\* sets hold exactly one attribute for each data entry whose parent is named
\* groups, dpv or dps, and the offsets and the points are those of the last
\* root-level entry whose name begins with 'offsets.' and 'positions.3.'.
C14_Routing ==
    (fmt = "TRX" /\ pc \in {"trx_loop", "trx_extract", "done"}) =>
        /\ Len(loc.dpg) = InSection(TRXText.groups, loc.i)
        /\ Len(loc.dpv) = InSection(TRXText.dpv, loc.i)
        /\ Len(loc.dps) = InSection(TRXText.dps, loc.i)
        /\ LastRoot(TRXText.offsets, loc.i) # 0 =>
               loc.noff = ValueCount(LastRoot(TRXText.offsets, loc.i))
        /\ LastRoot(TRXText.positions, loc.i) # 0 =>
               loc.npt = ValueCount(LastRoot(TRXText.positions, loc.i))


\* the file has the standard LINES layout, with as many polylines as its
\* LINES line declares and each polyline as long as its count
StandardLines(f) ==
    /\ f # <<>> /\ f.branch = "lines"
    /\ f.cells = VTKText.lines
    /\ f.n_count = NumText(Len(f.lines))
    /\ \A k \in 1..Len(f.lines) : f.lines[k].count = Len(f.lines[k].idx)

\* C15: when readVTK returns a Tractogram from the standard LINES branch,
\* every vertex index of every polyline it has read satisfies
\* 3*index + 2 < 3*pointCount, the length of the point table.
C15_IndexInBounds ==
    (fmt = "VTK" /\ pc = "done" /\ result.kind = "ok" /\ StandardLines(buffer.file)) =>
        \A k \in 1..Len(buffer.file.lines) :
            \A i \in 1..Len(buffer.file.lines[k].idx) :
                3 * buffer.file.lines[k].idx[i] + 2 < Len(loc.positions)


\* the file has a well-formed header and the OFFSETS layout with 64-bit
\* offsets, as many as its LINES line declares
Int64Offsets(f) ==
    /\ f # <<>> /\ f.branch = "int64"
    /\ f = VTKFile(f.points, "int64", <<>>, f.offsets)

\* the point table of the file, each coordinate as its 32-bit pattern
PointTable(f) == [k \in 1..(3 * f.points) |-> getUint32(F32Bytes(((k - 1) \div 3) + 1), 0)]

\* C16: readVTK of a file with 64-bit OFFSETS never fails, whatever the high
\* words are: it returns the point table as pts and as many offsets as the
\* LINES line declares, each the low word of its 64-bit value, and a nonzero
\* high word only raises the warning.
C16_Int64Offsets ==
    (fmt = "VTK" /\ pc = "done" /\ Int64Offsets(buffer.file)) =>
        /\ result.kind = "ok"
        /\ result.pts = PointTable(buffer.file)
        /\ Len(result.offsetPt0) = Len(buffer.file.offsets)
        /\ \A i \in 1..Len(buffer.file.offsets) :
               result.offsetPt0[i] = getInt32BE(I64BE(buffer.file.offsets[i]), 4)
        /\ result.warned = (\E i \in 1..Len(buffer.file.offsets) :
                               getInt32BE(I64BE(buffer.file.offsets[i]), 0) # 0)

\* a file whose second 64-bit offset has a nonzero high word was decoded:
\* two offsets are returned and the warning was raised
C16_Witness ==
    /\ fmt = "VTK" /\ pc = "done" /\ Int64Offsets(buffer.file)
    /\ buffer.file.points = 2 /\ buffer.file.offsets = <<1, -1>>
    /\ result.kind = "ok" /\ result.warned
    /\ result.offsetPt0 = <<1, -1>>
    /\ Len(result.pts) = 6


\* the header of the buffer has a file: line with an integer offset of 20 or more
HasFileOffset == buffer.fileLine \in {TxtFile40, TxtFILE40}

\* C17: readTCK of a buffer whose header has no file: line with an integer
\* offset of at least 20 (the line is missing, the offset is below 20, or
\* the offset is no number) ends in a failure.
C17_FileOffset ==
    (fmt = "TCK" /\ pc = "done" /\ ~HasFileOffset) => result.kind = "error"


\* the int16 at offset 992: the low half of the version word, signed
Int16Version(h) ==
    LET lo == h.vers % 65536 IN IF lo >= 32768 THEN lo - 65536 ELSE lo

C19_Independent ==
    [][ /\ (pc = "trx_extract" /\ buffer'.id = buffer.id /\ buffer'.phase = buffer.phase)
           => (zip' = zip /\ buffer' = buffer)
        /\ buffer'.phase = "end"
           => (buffer'.results[1] = buffer'.results[3] /\ buffer'.results[2] = buffer'.results[4])
      ]_vars

\* two invocations on different archives took turns at every await, both
\* returned a Tractogram, and the runs alone have ended too
C19_Witness ==
    /\ fmt = "TRX" /\ buffer.phase = "end"
    /\ buffer.first # buffer.second
    /\ buffer.switches >= 3
    /\ Len(buffer.results) = 4
    /\ buffer.results[1].kind = "ok" /\ buffer.results[2].kind = "ok"


\* C20: readTRX of an archive with an entry it skips (zero uncompressed size,
\* dot-prefixed name) or ignores (no numeric suffix, not header.json) ends as
\* readTRX of the archive without that entry, whatever the compression
\* method of the entry.
C20_PassedOverEntry ==
    (fmt = "TRX" /\ buffer.phase = "end") => buffer.results[1] = buffer.results[2]


\* the first end-of-central-directory record of the archive, 0 when it has none
FirstEnd ==
    LET ends == { j \in 1..Len(buffer.items) : buffer.items[j].kind \in {"end", "end64"} }
    IN  IF ends = {} THEN 0 ELSE CHOOSE j \in ends : \A i \in ends : j <= i

\* one iteration of the scan loop: it ends the loop at an error, at an end
\* record or at a signature it does not know, or it moves the cursor on by a
\* record, and goes on only while the cursor is inside the buffer; a search
\* for a data descriptor ends inside the buffer
ScanStep ==
    LET b == buffer.bytes
        sig == getUint32(b, zip.index)
        n == Len(zip.localFiles)
        goesOn == (pc' = "zip_read") <=> (zip'.index < Len(b))
    IN  \/ pc' = "done" /\ result'.kind = "error" /\ zip' = zip
        \/ /\ sig \in {SigEnd, SigEnd64}
           /\ zip' = [zip EXCEPT !.eocd = TRUE] /\ pc' = "trx_loop"
        \/ /\ sig \notin {SigLocal, SigCentral, SigEnd, SigEnd64}
           /\ zip' = [zip EXCEPT !.unexpected = TRUE] /\ pc' = "trx_loop"
        \/ /\ sig = SigLocal
           /\ Len(zip'.localFiles) = n + 1 /\ SubSeq(zip'.localFiles, 1, n) = zip.localFiles
           /\ zip'.index >= zip.index + 30
           /\ (getUint16(b, zip.index + 6) \div 8) % 2 = 1 /\ getUint32(b, zip.index + 18) = 0
                 => zip'.index <= Max(zip'.localFiles[n + 1].startsAt + 12, Len(b) - 4)
           /\ goesOn
        \/ /\ sig = SigCentral
           /\ zip'.centralDirectories = zip.centralDirectories + 1
           /\ zip'.localFiles = zip.localFiles
           /\ zip'.index >= zip.index + 46
           /\ goesOn

\* C21: opening an archive ends for every buffer.  Every iteration of the
\* scan loop moves the cursor on, by 30 or more after a local file header
\* and by 46 or more after a central directory record, or ends the loop: at
\* the first end record, at an unknown signature, at an error, or with the
\* cursor at the end of the buffer; and no entry that lies after the first
\* end record is enumerated.
C21_ScanTerminates ==
    /\ <>(pc \notin {"trx_open", "zip_read"})
    /\ [][pc = "zip_read" => ScanStep]_vars
    /\ [](FirstEnd # 0 =>
            \A k \in 1..Len(zip.localFiles) :
                zip.localFiles[k].offset < ItemOffset(buffer.items, FirstEnd))

\* the scan has ended at the end record of an archive that has an entry
\* behind it: the two entries before the record are enumerated, the one
\* behind is not
C21_Witness ==
    /\ fmt = "TRX" /\ pc = "trx_loop" /\ zip.eocd
    /\ FirstEnd = 3 /\ Len(buffer.items) = 4 /\ buffer.items[4].kind = "local"
    /\ Len(zip.localFiles) = 2
    /\ zip.index = ItemOffset(buffer.items, 3)


\* the vertex k of pts (from 0) is the point i of the point table
IsPoint(pts, k, positions, i) ==
    \A c \in 1..3 : pts[3 * k + c] = positions[3 * i + c]

\* C22: when readVTK returns a Tractogram from the standard LINES branch,
\* every vertex of pts is a copy of a point of the point table, and every
\* offset counts vertices of pts: a negative index or a negative vertex
\* count leaves nothing in the output that the point table does not hold.
C22_PointsFromTable ==
    (fmt = "VTK" /\ pc = "done" /\ result.kind = "ok"
        /\ buffer.file # <<>> /\ buffer.file.branch = "lines") =>
        /\ Len(result.pts) % 3 = 0
        /\ \A k \in 0..(Len(result.pts) \div 3 - 1) :
               \E i \in 0..(Len(loc.positions) \div 3 - 1) :
                   IsPoint(result.pts, k, loc.positions, i)
        /\ \A j \in 1..Len(result.offsetPt0) :
               result.offsetPt0[j] \in 0..(Len(result.pts) \div 3)

=============================================================================
